---- MODULE Spec2Model ----
(***************************************************************************)
(* Halt-and-catch-fire test suite: the shared orchestration layer of       *)
(* src/src/common.cc.                                                      *)
(*                                                                         *)
(*   Spec               the crash-check envelope RunWithCrashCheck around  *)
(*                      a payload, against a driver whose device can be    *)
(*                      lost.                                              *)
(*   SpecWatchdog       the watchdog thread, the exit handler and the main *)
(*                      thread, with spurious wakeups of the condition     *)
(*                      variable.                                          *)
(*   SpecWatchdogIdeal  the same without spurious wakeups, the timer       *)
(*                      expiring only while the watchdog is blocked.       *)
(*   SpecDevices        two threads calling the operations of the          *)
(*                      context's device collection.                       *)
(*   SpecMultiDevice    main of hang_host_event_multi_device.cc.           *)
(*   SpecInitVulkan     InitVulkan in a debug and in a release build.      *)
(*   SpecSelectQueue, SpecFindMemoryType, SpecAllocateBuffers,             *)
(*   SpecCreateSubmitInfo, SpecFlags, SpecQueueCreate                      *)
(*                      one call of the helper over bounded inputs.        *)
(*   SpecMarker         TestVulkan of buffer_marker_test.cc and the queue. *)
(*   SpecCommandPools   the command pools InitVulkanDevice creates for a   *)
(*                      queue request list.                                *)
(*   SpecAllocateMemory FindMemoryType's result handed to vkAllocateMemory.*)
(*   SpecRecord         CreateAndRecordCommandBuffers.                     *)
(*   SpecLoadShader     LoadShader and what its callers do with its result.*)
(*   SpecPrograms       the main function of every program.                *)
(*   SpecBindSparse     the bind-sparse semaphore scenario against the     *)
(*                      device's completions.                              *)
(*   SpecReferences     pointers into the device collection across later   *)
(*                      registrations and removals.                        *)
(*   SpecWatchdogExit   SpecWatchdog with both outcomes of a second call   *)
(*                      of exit, under fair scheduling.                    *)
(***************************************************************************)
EXTENDS Integers, Sequences, FiniteSets, TLC

VARIABLES
  \* ---- crash-check envelope, its payload and the driver's device state
  rpc,        \* position of the main thread inside RunWithCrashCheck
  ret,        \* value returned by RunWithCrashCheck ("none" until it returns)
  log,        \* every Vulkan call issued so far: [who, call, res], in order
  payload,    \* which workFn is wrapped: "host_event" or "generic"
  ppc,        \* position inside the payload
  pcalls,     \* queue calls made so far by the generic payload
  hung,       \* the queue holds work that never completes
  lost,       \* the device is lost
  workLost,   \* the device was already lost when workFn returned
  exit_code   \* "running", or the status the process ended with

crashVars == <<rpc, ret, log, payload, ppc, pcalls, hung, lost, workLost, exit_code>>

VARIABLES
  \* ---- watchdog (file-scope statics of common.cc and the two threads)
  watchdog_thread,  \* TRUE once the static std::thread* is non-null
  watchdog_mutex,   \* "free", or the thread that holds it
  test_timedout,    \* the atomic flag
  atexit_handlers,  \* registrations of WaitForWatchdogThread with atexit
  threads_started,  \* watchdog threads created so far
  setup_calls,      \* calls of SetupWatchdogTimer so far
  mpc,              \* main thread: "run", "blocked", "exiting"
  wpc,              \* watchdog thread position in WatchdogTimer
  status,           \* the cv_status wait_for returned ("none" before)
  expired,          \* the duration passed to wait_for has elapsed
  hpc,              \* per thread: position in the exit handler it runs
  notified,         \* notify_all has been issued
  notifiedInTime,   \* notify_all was issued before the duration elapsed
  proc_status       \* "running", or who ended the process: "0", "main"

wdVars == <<watchdog_thread, watchdog_mutex, test_timedout, atexit_handlers,
            threads_started, setup_calls, mpc, wpc, status, expired, hpc,
            notified, notifiedInTime, proc_status>>

VARIABLES
  \* ---- the context's device collection and the driver's device objects
  devices,        \* context->devices: the VulkanDevice records, in order
  devices_lock,   \* "free", or the thread inside a lock_guard on it
  live,           \* VkDevice handles created and not yet destroyed
  destroyed,      \* per handle, the vkDestroyDevice calls made on it
  instance_destroyed,  \* vkDestroyInstance calls made
  tpc,            \* per thread: "idle", "lock" (waiting), "access"
  top,            \* per thread: the operation it is in
  targ,           \* per thread: the VkDevice argument of that operation
  tres,           \* per thread: the slot the last lookup returned (0: null)
  ops,            \* operations begun so far
  lastDelete      \* the last DeleteVulkanDevice: its argument and the
                  \* collection and destroy counts before and after it

devVars == <<devices, devices_lock, live, destroyed, instance_destroyed,
             tpc, top, targ, tres, ops, lastDelete>>

VARIABLES
  \* ---- main of hang_host_event_multi_device.cc
  md_pc,          \* main's position
  created,        \* device1, device2, device3 as InitVulkanDevice returned them
  tv_pc,          \* position inside the running TestVulkan, "none" outside
  tv_device,      \* TestVulkan's local device pointer: a slot, 0 for null
  hungDevices,    \* devices whose queue holds a wait that never ends
  lostDevices,    \* devices the driver has declared lost
  md_exit,        \* "running", "0" (exit(0)) or "aborted" (failed assert)
  before          \* the records of the three devices when
                  \* DeleteVulkanDevice was called

mdVars == <<md_pc, created, tv_pc, tv_device, hungDevices, lostDevices,
            md_exit, before>>

VARIABLES
  \* ---- a single-context test program up to the end of InitVulkan
  build,          \* "debug" (assert active) or "release" (NDEBUG)
  iv_pc,          \* "instance", "device", "register", "setup", "done"
  iv_step,        \* the next checked driver call of InitVulkanDevice
  iv_failed,      \* the checked calls of InitVulkanDevice that failed
  iv_device,      \* InitVulkanDevice's local device.device
  iv_ret,         \* <<h>> once InitVulkanDevice returned h, << >> before
  iv_ok,          \* what InitVulkan returned: "true", "false", "none" before
  iv_exit         \* "running", "aborted", "1", or "test" (main goes on)

ivVars == <<build, iv_pc, iv_step, iv_failed, iv_device, iv_ret, iv_ok, iv_exit>>

baseVars == <<crashVars, wdVars, devVars, mdVars>>

VARIABLES
  \* ---- SelectQueue on one physical device
  queue_families, \* queueFlags of the device's queue families, in order
  queue_type,     \* the QueueType requested
  sq_pc,          \* "call" before SelectQueue ran, "returned" after
  queue_index     \* what SelectQueue returned

sqVars == <<queue_families, queue_type, sq_pc, queue_index>>

VARIABLES
  \* ---- FindMemoryType on one physical device
  memoryTypes,    \* propertyFlags of the device's memory types, in order
  memoryTypeBits, \* the type bitmask asked for
  memoryProperties, \* the property flags required
  fm_pc,          \* "call" before FindMemoryType ran, "returned" after
  memoryTypeIndex \* what FindMemoryType returned, as <<high, low>> halves

fmVars == <<memoryTypes, memoryTypeBits, memoryProperties, fm_pc, memoryTypeIndex>>

VARIABLES
  \* ---- AllocateInputOutputBuffers on one device
  initialization, \* the BufferInitialization mode asked for
  numBufferEntries, \* device->numBufferEntries
  bufferMemory,   \* the allocation's 32-bit words, by word index from 0
  allocationSize, \* bytes allocated
  bindIn,         \* byte offset bufferIn is bound at, -1 while unbound
  bindOut,        \* byte offset bufferOut is bound at, -1 while unbound
  ab_pc           \* "create", "bind", "init", "done", or "failed"

abVars == <<initialization, numBufferEntries, bufferMemory, allocationSize, bindIn, bindOut, ab_pc>>

VARIABLES
  \* ---- CreateSubmitInfo
  wait_semaphores,      \* << >> for a null pointer, <<v>> for a vector v
  wait_dst_stage_masks, \* likewise
  signal_semaphores,    \* likewise
  pnext,                \* the extension chain handed in, "null" for none
  si_pc,                \* "call" before CreateSubmitInfo ran, "returned" after
  submit_info           \* the VkSubmitInfo returned

siVars == <<wait_semaphores, wait_dst_stage_masks, signal_semaphores, pnext, si_pc, submit_info>>

VARIABLES
  \* ---- buffer_marker_test.cc: TestVulkan
  markerEntries,  \* device->numBufferEntries, the words of the marker buffer
  markerBuffer,   \* the marker buffer's 32-bit words, by word index from 0
  mk_pc,          \* "alloc", "init", "record", "submit", "idle", "done", "failed"
  mk_i,           \* the counter of the initialisation loop
  commandBuffer,  \* the commands recorded so far
  gpu_next,       \* the next command the queue issues, 0 before the submit
  gpu_running     \* the dispatches issued and not yet complete

mkVars == <<markerEntries, markerBuffer, mk_pc, mk_i, commandBuffer, gpu_next, gpu_running>>

VARIABLES
  \* ---- common.cc: InitFlags, GetFlag
  argv,        \* the arguments after the program name, each a string
  names,       \* GlobalFlags().names, the defined flags
  values,      \* GlobalFlags().values, flag name -> value
  fl_i,        \* the loop index of InitFlags (argv[0] is the program name)
  fl_pc,       \* "running", "returned", "exit_failure"
  fl_stderr    \* what PrintHelpAndExit wrote: << >>, or <<invalid, flags>>

flVars == <<argv, names, values, fl_i, fl_pc, fl_stderr>>

VARIABLES
  \* ---- common.cc: the queue loop of InitVulkanDevice
  physicalDevice,       \* the queue families of physicalDevices.front()
  queues,               \* *queues, the requested queue classes in order
  qc_pos,               \* requests handled so far by the loop
  queue_create_infos,   \* the VkDeviceQueueCreateInfo descriptors built
  create_info_indices,  \* family index -> position in queue_create_infos
  queue_indices,        \* per request, <<family index, queue index>>
  queueCreateInfoCount, \* deviceInfo.queueCreateInfoCount, -1 before it is set
  qc_pc                 \* "loop", "done"

qcVars == <<physicalDevice, queues, qc_pos, queue_create_infos, create_info_indices, queue_indices, queueCreateInfoCount, qc_pc>>

VARIABLES
  \* ---- common.cc: the queue and command-pool loop of InitVulkanDevice
  device_queues,  \* device.queues: per queue got, <<family index, queue index>>
  commandPools,   \* device.commandPools: per pool, the family it was created for
  cp_pos,         \* entries of queue_indices handled so far
  cp_pc           \* "loop", "defaults", "done", "returned_early", "aborted"

cpVars == <<device_queues, commandPools, cp_pos, cp_pc>>

VARIABLES
  \* ---- the callers of FindMemoryType: vkAllocateMemory
  allocateInfo,   \* << >>, or <<memoryTypeIndex>> once vkAllocateMemory was called
  al_pc           \* "find", "allocated", "failed"

alVars == <<allocateInfo, al_pc>>

VARIABLES
  \* ---- common.cc: CreateAndRecordCommandBuffers
  secondary_arg,  \* the caller supplied a secondary out-parameter
  callback,       \* the commands the callback f records, in order
  primary_out,    \* *primary: << >> while unwritten, else <<handle>>
  secondary_out,  \* the caller's secondary variable, likewise
  allocated,      \* handle -> level, for the command buffers allocated
  recorded,       \* handle -> commands recorded into it (0: indeterminate handle)
  cr_cb,          \* the local cb
  cr_calls,       \* invocations of f
  cr_failed,      \* some checked call failed and the build carried on
  cr_pc           \* position inside the function

crVars == <<secondary_arg, callback, primary_out, secondary_out, allocated, recorded, cr_cb, cr_calls, cr_failed, cr_pc>>

VARIABLES
  \* ---- common.cc: LoadShader and its two callers
  ls_caller,       \* "InitVulkanDevice" or "load_shader" (main of load_shader.cc)
  file_opens,      \* fopen(filename, "rb") succeeds
  length_known,    \* ftell(f) does not return -1
  shader,          \* the VkShaderModule out-parameter: << >> unwritten, else <<"module">>
  load_result,     \* what LoadShader returned: "none" before, "true", "false"
  pipeline_module, \* << >>, or <<the module the compute pipeline was built from>>
  ls_step,         \* next call of ShaderPipelineCalls
  ls_failed,       \* the calls that failed and were run over, by name
  ls_pc            \* "load", "pipeline", "registered", "exit_0", "aborted"

lsVars == <<ls_caller, file_opens, length_known, shader, load_result, pipeline_module, ls_step, ls_failed, ls_pc>>

VARIABLES
  \* ---- the main functions of the programs
  program,       \* which program runs
  pg_argv,       \* argv[1..argc-1] of the loader utility, << >> for the others
  pg_pos,        \* position in the program's script
  registered,    \* context -> number of records in context.devices
  gsd_sizes,     \* devices.size() seen by the calls of GetSingleDevice so far
  pg_submitted,  \* batches handed to a queue so far
  pg_pc          \* "run", "exit_0", "exit_1", "exit_-1", "aborted"

pgVars == <<program, pg_argv, pg_pos, registered, gsd_sizes, pg_submitted, pg_pc>>

VARIABLES
  \* ---- hang_binary_timeline_semaphore_gpu_bind_sparse.cc: TestVulkan
  binarySemaphores,    \* index -> 0 (unsignaled) or 1 (signaled)
  timelineSemaphores,  \* index -> counter value
  fence,               \* TRUE: signaled
  bs_pending,          \* descriptors handed to the queue and not yet completed
  bs_completed,        \* descriptors in the order the device completed them
  bs_pos,              \* position of the host in TestVulkan's calls
  bs_pc                \* "run", "returned", "exit_0"

bsVars == <<binarySemaphores, timelineSemaphores, fence, bs_pending, bs_completed, bs_pos, bs_pc>>

VARIABLES
  \* ---- references into context.devices
  rf_devices,    \* the vector's records
  rf_capacity,   \* records its storage has room for
  rf_storage,    \* which allocation holds the records (counts reallocations)
  rf_ref,        \* the pointer a caller holds: << >> none,
                 \* <<[storage, slot, device]>> as GetDevice returned it
  rf_ops,        \* operations so far
  rf_pc          \* "run", "aborted"

rfVars == <<rf_devices, rf_capacity, rf_storage, rf_ref, rf_ops, rf_pc>>

restVars == <<ivVars, sqVars, fmVars, abVars, siVars, mkVars, flVars,
              qcVars, cpVars, alVars, crVars, lsVars, pgVars, bsVars,
              rfVars>>

vars == <<baseVars, restVars>>

\* What the actions of one part leave alone.
otherThanCrash == <<wdVars, devVars, mdVars, restVars>>
otherThanWatchdog == <<crashVars, devVars, mdVars, restVars>>
otherThanDevices == <<crashVars, wdVars, mdVars, restVars>>
\* The groups other than ivVars among restVars.
afterIvVars == <<sqVars, fmVars, abVars, siVars, mkVars, flVars, qcVars,
                 cpVars, alVars, crVars, lsVars, pgVars, bsVars, rfVars>>

otherThanIv == <<baseVars, sqVars, fmVars, abVars, siVars, mkVars, flVars,
                 qcVars, cpVars, alVars, crVars, lsVars, pgVars, bsVars,
                 rfVars>>
otherThanSq == <<baseVars, ivVars, fmVars, abVars, siVars, mkVars, flVars,
                 qcVars, cpVars, alVars, crVars, lsVars, pgVars, bsVars,
                 rfVars>>
otherThanFm == <<baseVars, ivVars, sqVars, abVars, siVars, mkVars, flVars,
                 qcVars, cpVars, alVars, crVars, lsVars, pgVars, bsVars,
                 rfVars>>
otherThanAb == <<baseVars, ivVars, sqVars, fmVars, siVars, mkVars, flVars,
                 qcVars, cpVars, alVars, crVars, lsVars, pgVars, bsVars,
                 rfVars>>
otherThanSi == <<baseVars, ivVars, sqVars, fmVars, abVars, mkVars, flVars,
                 qcVars, cpVars, alVars, crVars, lsVars, pgVars, bsVars,
                 rfVars>>
otherThanMk == <<baseVars, ivVars, sqVars, fmVars, abVars, siVars, flVars,
                 qcVars, cpVars, alVars, crVars, lsVars, pgVars, bsVars,
                 rfVars>>
otherThanFl == <<baseVars, ivVars, sqVars, fmVars, abVars, siVars, mkVars,
                 qcVars, cpVars, alVars, crVars, lsVars, pgVars, bsVars,
                 rfVars>>
otherThanQc == <<baseVars, ivVars, sqVars, fmVars, abVars, siVars, mkVars,
                 flVars, cpVars, alVars, crVars, lsVars, pgVars, bsVars,
                 rfVars>>
otherThanCp == <<baseVars, ivVars, sqVars, fmVars, abVars, siVars, mkVars,
                 flVars, qcVars, alVars, crVars, lsVars, pgVars, bsVars,
                 rfVars>>
otherThanAl == <<baseVars, ivVars, sqVars, fmVars, abVars, siVars, mkVars,
                 flVars, qcVars, cpVars, crVars, lsVars, pgVars, bsVars,
                 rfVars>>
otherThanCr == <<baseVars, ivVars, sqVars, fmVars, abVars, siVars, mkVars,
                 flVars, qcVars, cpVars, alVars, lsVars, pgVars, bsVars,
                 rfVars>>
otherThanLs == <<baseVars, ivVars, sqVars, fmVars, abVars, siVars, mkVars,
                 flVars, qcVars, cpVars, alVars, crVars, pgVars, bsVars,
                 rfVars>>
\* The groups other than pgVars among restVars.
afterPgVars == <<ivVars, sqVars, fmVars, abVars, siVars, mkVars, flVars,
                 qcVars, cpVars, alVars, crVars, lsVars, bsVars, rfVars>>

otherThanPg == <<baseVars, ivVars, sqVars, fmVars, abVars, siVars, mkVars,
                 flVars, qcVars, cpVars, alVars, crVars, lsVars, bsVars,
                 rfVars>>
otherThanBs == <<baseVars, ivVars, sqVars, fmVars, abVars, siVars, mkVars,
                 flVars, qcVars, cpVars, alVars, crVars, lsVars, pgVars,
                 rfVars>>
otherThanRf == <<baseVars, ivVars, sqVars, fmVars, abVars, siVars, mkVars,
                 flVars, qcVars, cpVars, alVars, crVars, lsVars, pgVars,
                 bsVars>>

\* Most queue calls a generic payload makes before it returns.
MaxPayloadCalls == 3

\* Most calls of SetupWatchdogTimer in one process.
MaxSetupCalls == 3

\* Most devices registered at once, and the handles the driver hands out.
MaxDevices == 3

\* Most operations on the device collection in one run.
MaxOps == 4

\* Most queue families of the physical device.
MaxFamilies == 3

\* Most memory types of the physical device.
MaxMemoryTypes == 3

\* Most entries per buffer (device->numBufferEntries, 256 in the program).
MaxBufferEntries == 2

\* Most semaphores in one list handed to CreateSubmitInfo.
MaxSemaphores == 2

\* Most words of the marker buffer (256 in the program, at least the four
\* that are printed).
MaxMarkerEntries == 5

\* Most arguments on a command line, and most symbols in one argument.
MaxArgs == 2
MaxArgLen == 2

\* Most arguments after the program name on the loader utility's command
\* line, the file name included.
MaxLoaderArgs == 3

\* Most commands a recording callback records.
MaxCallbackCommands == 2

\* Most queue classes requested of InitVulkanDevice, and most queue
\* families of the physical device it is called on.
MaxQueues == 3
MaxDeviceFamilies == 2

----------------------------------------------------------------------------
(* VkResult values the calls of the envelope can produce.                  *)

VK_SUCCESS == "VK_SUCCESS"
VK_TIMEOUT == "VK_TIMEOUT"
VK_ERROR_OUT_OF_HOST_MEMORY == "VK_ERROR_OUT_OF_HOST_MEMORY"
VK_ERROR_DEVICE_LOST == "VK_ERROR_DEVICE_LOST"

(* Driver: object creation and command-buffer recording do not touch the   *)
(* queue; they succeed or run out of memory.                               *)
HostCallResults == {VK_SUCCESS, VK_ERROR_OUT_OF_HOST_MEMORY}

(* Driver: a lost device fails every later queue submit.                   *)
vkQueueSubmitResults(isLost) ==
  IF isLost THEN {VK_ERROR_DEVICE_LOST}
  ELSE {VK_SUCCESS, VK_ERROR_OUT_OF_HOST_MEMORY}

(* Driver: idle-wait blocks while the queue holds unfinished work on a     *)
(* live device; on a lost device it may report success all the same.       *)
vkQueueWaitIdleReturns(isLost, isHung) == isLost \/ ~isHung

vkQueueWaitIdleResults(isLost) ==
  IF isLost THEN {VK_SUCCESS, VK_ERROR_DEVICE_LOST}
  ELSE {VK_SUCCESS, VK_ERROR_OUT_OF_HOST_MEMORY}

(* Driver: a fence wait fails on a lost device; on a live device it        *)
(* succeeds once the submission ran and times out behind a hang.           *)
vkWaitForFencesResults(isLost, isHung) ==
  IF isLost THEN {VK_ERROR_DEVICE_LOST}
  ELSE IF isHung THEN {VK_TIMEOUT}
  ELSE {VK_SUCCESS, VK_ERROR_OUT_OF_HOST_MEMORY}

Entry(who, call, res) == [who |-> who, call |-> call, res |-> res]

----------------------------------------------------------------------------
(* The three result policies of common.h.                                  *)

\* Mutation: the propagate policy that logs and carries on.
VK_RETURN_IF_FAIL_Continue(res, next) ==
  /\ rpc' = next
  /\ ret' = ret

\* VK_RETURN_IF_FAIL(f): a failing call returns its result from the
\* enclosing function at once.
VK_RETURN_IF_FAIL(res, next) ==
  IF res # VK_SUCCESS
    THEN rpc' = "returned" /\ ret' = res
    ELSE rpc' = next /\ ret' = ret

\* Mutation: the validate policy that logs and carries on.
VK_VALIDATE_RESULT_Continue(res, next) ==
  /\ ppc' = next
  /\ exit_code' = exit_code

\* VK_VALIDATE_RESULT(f): a failing call ends the process with exit(0).
VK_VALIDATE_RESULT(res, next) ==
  IF res # VK_SUCCESS
    THEN ppc' = "exited" /\ exit_code' = "0"
    ELSE ppc' = next /\ exit_code' = exit_code

Running == exit_code = "running"

----------------------------------------------------------------------------
(* RunWithCrashCheck, one action per Vulkan call.                          *)

EnvCall(call, res) == log' = Append(log, Entry("env", call, res))

RunAllocate ==
  /\ Running /\ rpc = "allocate"
  /\ \E res \in HostCallResults :
       /\ EnvCall("vkAllocateCommandBuffers", res)
       /\ VK_RETURN_IF_FAIL(res, "begin")
  /\ UNCHANGED <<payload, ppc, pcalls, hung, lost, workLost, exit_code>>
  /\ UNCHANGED otherThanCrash

RunBegin ==
  /\ Running /\ rpc = "begin"
  /\ \E res \in HostCallResults :
       /\ EnvCall("vkBeginCommandBuffer", res)
       /\ VK_RETURN_IF_FAIL(res, "end")
  /\ UNCHANGED <<payload, ppc, pcalls, hung, lost, workLost, exit_code>>
  /\ UNCHANGED otherThanCrash

RunEnd ==
  /\ Running /\ rpc = "end"
  /\ \E res \in HostCallResults :
       /\ EnvCall("vkEndCommandBuffer", res)
       /\ VK_RETURN_IF_FAIL(res, "fence")
  /\ UNCHANGED <<payload, ppc, pcalls, hung, lost, workLost, exit_code>>
  /\ UNCHANGED otherThanCrash

RunCreateFence ==
  /\ Running /\ rpc = "fence"
  /\ \E res \in HostCallResults :
       /\ EnvCall("vkCreateFence", res)
       /\ VK_RETURN_IF_FAIL(res, "work")
  /\ UNCHANGED <<payload, ppc, pcalls, hung, lost, workLost, exit_code>>
  /\ UNCHANGED otherThanCrash

\* f(ctx): control passes to the payload.
RunInvokeWork ==
  /\ Running /\ rpc = "work" /\ ppc = "idle"
  /\ EnvCall("workFn", VK_SUCCESS)
  /\ ppc' = "running"
  /\ UNCHANGED <<rpc, ret, payload, pcalls, hung, lost, workLost, exit_code>>
  /\ UNCHANGED otherThanCrash

\* Mutation: the step-3 idle-wait logged but its result dropped.
RunWaitIdle_Unchecked ==
  /\ Running /\ rpc = "idle"
  /\ vkQueueWaitIdleReturns(lost, hung)
  /\ \E res \in vkQueueWaitIdleResults(lost) :
       /\ EnvCall("vkQueueWaitIdle", res)
       /\ rpc' = "submit"
       /\ ret' = ret
  /\ UNCHANGED <<payload, ppc, pcalls, hung, lost, workLost, exit_code>>
  /\ UNCHANGED otherThanCrash

\* Step 3: VK_RETURN_IF_FAIL(vkQueueWaitIdle(device->queue)).
RunWaitIdle ==
  /\ Running /\ rpc = "idle"
  /\ vkQueueWaitIdleReturns(lost, hung)
  /\ \E res \in vkQueueWaitIdleResults(lost) :
       /\ EnvCall("vkQueueWaitIdle", res)
       /\ VK_RETURN_IF_FAIL(res, "submit")
  /\ UNCHANGED <<payload, ppc, pcalls, hung, lost, workLost, exit_code>>
  /\ UNCHANGED otherThanCrash

\* Mutation: the sentinel submitted while workFn is still running.
RunSubmit_DuringWork ==
  /\ Running /\ rpc = "work" /\ ppc = "running"
  /\ \E res \in vkQueueSubmitResults(lost) :
       /\ EnvCall("vkQueueSubmit", res)
       /\ VK_RETURN_IF_FAIL(res, "wait")
  /\ UNCHANGED <<payload, ppc, pcalls, hung, lost, workLost, exit_code>>
  /\ UNCHANGED otherThanCrash

RunSubmit ==
  /\ Running /\ rpc = "submit"
  /\ \E res \in vkQueueSubmitResults(lost) :
       /\ EnvCall("vkQueueSubmit", res)
       /\ VK_RETURN_IF_FAIL(res, "wait")
  /\ UNCHANGED <<payload, ppc, pcalls, hung, lost, workLost, exit_code>>
  /\ UNCHANGED otherThanCrash

RunWaitFence ==
  /\ Running /\ rpc = "wait"
  /\ \E res \in vkWaitForFencesResults(lost, hung) :
       /\ EnvCall("vkWaitForFences", res)
       /\ VK_RETURN_IF_FAIL(res, "final")
  /\ UNCHANGED <<payload, ppc, pcalls, hung, lost, workLost, exit_code>>
  /\ UNCHANGED otherThanCrash

\* return vkQueueWaitIdle(device->queue);
RunFinalIdle ==
  /\ Running /\ rpc = "final"
  /\ vkQueueWaitIdleReturns(lost, hung)
  /\ \E res \in vkQueueWaitIdleResults(lost) :
       /\ EnvCall("vkQueueWaitIdle", res)
       /\ rpc' = "returned"
       /\ ret' = res
  /\ UNCHANGED <<payload, ppc, pcalls, hung, lost, workLost, exit_code>>
  /\ UNCHANGED otherThanCrash

RunWithCrashCheck ==
  \/ RunAllocate
  \/ RunBegin
  \/ RunEnd
  \/ RunCreateFence
  \/ RunInvokeWork
  \/ RunWaitIdle
  \/ RunSubmit
  \/ RunWaitFence
  \/ RunFinalIdle

----------------------------------------------------------------------------
(* Payloads.  A payload is the list of queue calls workFn makes, each with *)
(* the policy applied to its result.                                       *)

Step(call, faulty, policy) == [call |-> call, faulty |-> faulty, policy |-> policy]

\* hang_host_event.cc TestVulkan: "Submit 1" carries the wait on the event
\* nobody signals, then idle-wait, "Submit 2", idle-wait, each under
\* VK_VALIDATE_RESULT.
TestVulkan ==
  << Step("vkQueueSubmit", TRUE, "validate"),
     Step("vkQueueWaitIdle", FALSE, "validate"),
     Step("vkQueueSubmit", FALSE, "validate"),
     Step("vkQueueWaitIdle", FALSE, "validate") >>

\* An arbitrary workFn makes any call next, checked or not.
AnyStep ==
  { Step(c, f, p) : c \in {"vkQueueSubmit"}, f \in BOOLEAN, p \in {"validate", "ignore"} }
  \cup { Step("vkQueueWaitIdle", FALSE, p) : p \in {"validate", "ignore"} }

\* The calls the payload can make next.
NextSteps ==
  IF payload = "host_event"
    THEN IF pcalls < Len(TestVulkan) THEN {TestVulkan[pcalls + 1]} ELSE {}
    ELSE IF pcalls < MaxPayloadCalls THEN AnyStep ELSE {}

PayloadCall(call, res) ==
  log' = Append(log, Entry("payload", call, res))

\* The policy applied to the result of a payload call.
PayloadPolicy(policy, res) ==
  IF policy = "validate"
    THEN VK_VALIDATE_RESULT(res, "running")
    ELSE ppc' = "running" /\ exit_code' = exit_code

PayloadSubmit ==
  /\ Running /\ rpc = "work" /\ ppc = "running"
  /\ \E step \in NextSteps, res \in vkQueueSubmitResults(lost) :
       /\ step.call = "vkQueueSubmit"
       /\ PayloadCall(step.call, res)
       /\ PayloadPolicy(step.policy, res)
       /\ hung' = (hung \/ (step.faulty /\ res = VK_SUCCESS))
  /\ pcalls' = pcalls + 1
  /\ UNCHANGED <<rpc, ret, payload, lost, workLost>>
  /\ UNCHANGED otherThanCrash

PayloadWaitIdle ==
  /\ Running /\ rpc = "work" /\ ppc = "running"
  /\ vkQueueWaitIdleReturns(lost, hung)
  /\ \E step \in NextSteps, res \in vkQueueWaitIdleResults(lost) :
       /\ step.call = "vkQueueWaitIdle"
       /\ PayloadCall(step.call, res)
       /\ PayloadPolicy(step.policy, res)
  /\ pcalls' = pcalls + 1
  /\ UNCHANGED <<rpc, ret, payload, hung, lost, workLost>>
  /\ UNCHANGED otherThanCrash

\* workFn returns to RunWithCrashCheck: the host-event payload after its
\* last call, an arbitrary one whenever it likes.
PayloadReturn ==
  /\ Running /\ rpc = "work" /\ ppc = "running"
  /\ payload = "host_event" => pcalls = Len(TestVulkan)
  /\ ppc' = "done"
  /\ rpc' = "idle"
  /\ workLost' = lost
  /\ UNCHANGED <<ret, log, payload, pcalls, hung, lost, exit_code>>
  /\ UNCHANGED otherThanCrash

Payload ==
  \/ PayloadSubmit
  \/ PayloadWaitIdle
  \/ PayloadReturn

\* Driver: the hang (or fault) of the submitted work is detected and the
\* device is lost; nothing brings a lost device back.
DeviceLost ==
  /\ Running /\ hung /\ ~lost
  /\ lost' = TRUE
  /\ UNCHANGED <<rpc, ret, log, payload, ppc, pcalls, hung, workLost, exit_code>>
  /\ UNCHANGED otherThanCrash

----------------------------------------------------------------------------

InitCrash ==
  /\ rpc = "allocate"
  /\ ret = "none"
  /\ log = << >>
  /\ payload \in {"host_event", "generic"}
  /\ ppc = "idle"
  /\ pcalls = 0
  /\ hung = FALSE
  /\ lost = FALSE
  /\ workLost = FALSE
  /\ exit_code = "running"

----------------------------------------------------------------------------
(* Watchdog.  Two threads: main and the watchdog thread.                   *)

Threads == {"main", "watchdog"}

Alive == proc_status = "running"

\* Mutation: the setup without the null check on watchdog_thread.
SetupWatchdogTimer_Unguarded ==
  /\ watchdog_thread' = TRUE
  /\ threads_started' = threads_started + 1
  /\ wpc' = "begin"
  /\ atexit_handlers' = atexit_handlers + 1

\* SetupWatchdogTimer: start the thread and register the exit handler,
\* only while watchdog_thread is still null.
SetupWatchdogTimer ==
  IF ~watchdog_thread
    THEN /\ watchdog_thread' = TRUE
         /\ threads_started' = threads_started + 1
         /\ wpc' = "begin"
         /\ atexit_handlers' = atexit_handlers + 1
    ELSE UNCHANGED <<watchdog_thread, threads_started, wpc, atexit_handlers>>

\* The main thread calls SetupWatchdogTimer (directly or through InitVulkan).
MainSetup ==
  /\ Alive /\ mpc = "run"
  /\ setup_calls < MaxSetupCalls
  /\ setup_calls' = setup_calls + 1
  /\ SetupWatchdogTimer
  /\ UNCHANGED <<watchdog_mutex, test_timedout, mpc, status, expired, hpc,
                 notified, notifiedInTime, proc_status>>
  /\ UNCHANGED otherThanWatchdog

\* The main thread enters an accelerator call that never returns.
MainBlock ==
  /\ Alive /\ mpc = "run"
  /\ mpc' = "blocked"
  /\ UNCHANGED <<watchdog_thread, watchdog_mutex, test_timedout, atexit_handlers,
                 threads_started, setup_calls, wpc, status, expired, hpc,
                 notified, notifiedInTime, proc_status>>
  /\ UNCHANGED otherThanWatchdog

\* exit() on thread t: the registered handlers run on t, then the process
\* ends with the status t gave.
BeginExit(t) ==
  IF atexit_handlers > 0
    THEN hpc' = [hpc EXCEPT ![t] = "check"] /\ proc_status' = proc_status
    ELSE hpc' = hpc /\ proc_status' = IF t = "watchdog" THEN "0" ELSE "main"

\* The main thread finishes: main returns, or a validate-and-exit fires.
MainExit ==
  /\ Alive /\ mpc = "run"
  /\ mpc' = "exiting"
  /\ BeginExit("main")
  /\ UNCHANGED <<watchdog_thread, watchdog_mutex, test_timedout, atexit_handlers,
                 threads_started, setup_calls, wpc, status, expired,
                 notified, notifiedInTime>>
  /\ UNCHANGED otherThanWatchdog

\* WatchdogTimer: std::unique_lock<std::mutex> lock(watchdog_mutex).
WdLock ==
  /\ Alive /\ wpc = "begin"
  /\ watchdog_mutex = "free"
  /\ watchdog_mutex' = "watchdog"
  /\ wpc' = "locked"
  /\ UNCHANGED <<watchdog_thread, test_timedout, atexit_handlers, threads_started,
                 setup_calls, mpc, status, expired, hpc, notified,
                 notifiedInTime, proc_status>>
  /\ UNCHANGED otherThanWatchdog

\* wait_for releases the mutex and blocks; its duration starts to run.
WdWait ==
  /\ Alive /\ wpc = "locked"
  /\ watchdog_mutex' = "free"
  /\ wpc' = "waiting"
  /\ expired' = FALSE
  /\ UNCHANGED <<watchdog_thread, test_timedout, atexit_handlers, threads_started,
                 setup_calls, mpc, status, hpc, notified, notifiedInTime,
                 proc_status>>
  /\ UNCHANGED otherThanWatchdog

\* Time: the duration elapses, at any moment before wait_for returns.
Expire ==
  /\ Alive /\ wpc \in {"waiting", "wake"}
  /\ ~expired
  /\ expired' = TRUE
  /\ UNCHANGED <<watchdog_thread, watchdog_mutex, test_timedout, atexit_handlers,
                 threads_started, setup_calls, mpc, wpc, status, hpc,
                 notified, notifiedInTime, proc_status>>
  /\ UNCHANGED otherThanWatchdog

\* Time, seen by an ideal wait_for: the duration elapses while the thread
\* is blocked, never between its wake-up and its return.
ExpireWhileBlocked ==
  /\ wpc = "waiting"
  /\ Expire

\* wait_for unblocks because its duration elapsed.
WdTimeoutWake ==
  /\ Alive /\ wpc = "waiting"
  /\ expired
  /\ wpc' = "wake"
  /\ UNCHANGED <<watchdog_thread, watchdog_mutex, test_timedout, atexit_handlers,
                 threads_started, setup_calls, mpc, status, expired, hpc,
                 notified, notifiedInTime, proc_status>>
  /\ UNCHANGED otherThanWatchdog

\* wait_for has no predicate: it may also unblock spuriously.
WdSpuriousWake ==
  /\ Alive /\ wpc = "waiting"
  /\ wpc' = "wake"
  /\ UNCHANGED <<watchdog_thread, watchdog_mutex, test_timedout, atexit_handlers,
                 threads_started, setup_calls, mpc, status, expired, hpc,
                 notified, notifiedInTime, proc_status>>
  /\ UNCHANGED otherThanWatchdog

\* wait_for reacquires the mutex and returns timeout exactly when its
\* duration has elapsed.
WdReacquire ==
  /\ Alive /\ wpc = "wake"
  /\ watchdog_mutex = "free"
  /\ watchdog_mutex' = "watchdog"
  /\ status' = IF expired THEN "timeout" ELSE "no_timeout"
  /\ wpc' = "woke"
  /\ UNCHANGED <<watchdog_thread, test_timedout, atexit_handlers, threads_started,
                 setup_calls, mpc, expired, hpc, notified, notifiedInTime,
                 proc_status>>
  /\ UNCHANGED otherThanWatchdog

\* The scope of the unique_lock ends.
WdUnlock ==
  /\ Alive /\ wpc = "woke"
  /\ watchdog_mutex' = "free"
  /\ wpc' = "check"
  /\ UNCHANGED <<watchdog_thread, test_timedout, atexit_handlers, threads_started,
                 setup_calls, mpc, status, expired, hpc, notified,
                 notifiedInTime, proc_status>>
  /\ UNCHANGED otherThanWatchdog

\* if (status == std::cv_status::timeout) { test_timedout = true; ...
\* otherwise the thread function returns.
WdCheck ==
  /\ Alive /\ wpc = "check"
  /\ IF status = "timeout"
       THEN test_timedout' = TRUE /\ wpc' = "timedout"
       ELSE test_timedout' = test_timedout /\ wpc' = "returned"
  /\ UNCHANGED <<watchdog_thread, watchdog_mutex, atexit_handlers, threads_started,
                 setup_calls, mpc, status, expired, hpc, notified,
                 notifiedInTime, proc_status>>
  /\ UNCHANGED otherThanWatchdog

\* ... exit(0); }
WdExit ==
  /\ Alive /\ wpc = "timedout"
  /\ wpc' = "exiting"
  /\ BeginExit("watchdog")
  /\ UNCHANGED <<watchdog_thread, watchdog_mutex, test_timedout, atexit_handlers,
                 threads_started, setup_calls, mpc, status, expired,
                 notified, notifiedInTime>>
  /\ UNCHANGED otherThanWatchdog

WatchdogTimer ==
  \/ WdLock
  \/ WdWait
  \/ WdTimeoutWake
  \/ WdReacquire
  \/ WdUnlock
  \/ WdCheck
  \/ WdExit

\* Mutation: the handler without its test of the flag.
HandlerCheck_NoFlagTest(t) ==
  /\ Alive /\ hpc[t] = "check"
  /\ hpc' = [hpc EXCEPT ![t] = "lock"]
  /\ UNCHANGED <<watchdog_thread, watchdog_mutex, test_timedout, atexit_handlers,
                 threads_started, setup_calls, mpc, wpc, status, expired,
                 notified, notifiedInTime, proc_status>>
  /\ UNCHANGED otherThanWatchdog

\* WaitForWatchdogThread on thread t: if (test_timedout) return;
HandlerCheck(t) ==
  /\ Alive /\ hpc[t] = "check"
  /\ hpc' = [hpc EXCEPT ![t] = IF test_timedout THEN "done" ELSE "lock"]
  /\ UNCHANGED <<watchdog_thread, watchdog_mutex, test_timedout, atexit_handlers,
                 threads_started, setup_calls, mpc, wpc, status, expired,
                 notified, notifiedInTime, proc_status>>
  /\ UNCHANGED otherThanWatchdog

HandlerLock(t) ==
  /\ Alive /\ hpc[t] = "lock"
  /\ watchdog_mutex = "free"
  /\ watchdog_mutex' = t
  /\ hpc' = [hpc EXCEPT ![t] = "notify"]
  /\ UNCHANGED <<watchdog_thread, test_timedout, atexit_handlers, threads_started,
                 setup_calls, mpc, wpc, status, expired, notified,
                 notifiedInTime, proc_status>>
  /\ UNCHANGED otherThanWatchdog

\* test_is_finished.notify_all(): unblocks the thread waiting at this
\* moment, if any; nothing remembers the notification otherwise.
HandlerNotify(t) ==
  /\ Alive /\ hpc[t] = "notify"
  /\ wpc' = IF wpc = "waiting" THEN "wake" ELSE wpc
  /\ notified' = TRUE
  /\ notifiedInTime' = (notifiedInTime \/ ~expired)
  /\ hpc' = [hpc EXCEPT ![t] = "unlock"]
  /\ UNCHANGED <<watchdog_thread, watchdog_mutex, test_timedout, atexit_handlers,
                 threads_started, setup_calls, mpc, status, expired, proc_status>>
  /\ UNCHANGED otherThanWatchdog

HandlerUnlock(t) ==
  /\ Alive /\ hpc[t] = "unlock"
  /\ watchdog_mutex' = "free"
  /\ hpc' = [hpc EXCEPT ![t] = "join"]
  /\ UNCHANGED <<watchdog_thread, test_timedout, atexit_handlers, threads_started,
                 setup_calls, mpc, wpc, status, expired, notified,
                 notifiedInTime, proc_status>>
  /\ UNCHANGED otherThanWatchdog

\* if (watchdog_thread && watchdog_thread->joinable()) join(): returns once
\* the watchdog's thread function has returned.
HandlerJoin(t) ==
  /\ Alive /\ hpc[t] = "join"
  /\ watchdog_thread => (wpc = "returned" /\ t # "watchdog")
  /\ hpc' = [hpc EXCEPT ![t] = "done"]
  /\ UNCHANGED <<watchdog_thread, watchdog_mutex, test_timedout, atexit_handlers,
                 threads_started, setup_calls, mpc, wpc, status, expired,
                 notified, notifiedInTime, proc_status>>
  /\ UNCHANGED otherThanWatchdog

\* The handlers are done: exit() ends the process.
FinishExit(t) ==
  /\ Alive /\ hpc[t] = "done"
  /\ proc_status' = IF t = "watchdog" THEN "0" ELSE "main"
  /\ UNCHANGED <<watchdog_thread, watchdog_mutex, test_timedout, atexit_handlers,
                 threads_started, setup_calls, mpc, wpc, status, expired, hpc,
                 notified, notifiedInTime>>
  /\ UNCHANGED otherThanWatchdog

\* exit() called on one thread while another thread is inside exit() has
\* no defined behaviour.  One outcome is that the second call runs the
\* handlers again (WdExit, MainExit); the other, of a C library that
\* serialises exit, is that the second caller blocks until the process
\* has ended.
WdExitBlocks ==
  /\ Alive /\ wpc = "timedout"
  /\ mpc = "exiting"
  /\ wpc' = "exit_blocked"
  /\ UNCHANGED <<watchdog_thread, watchdog_mutex, test_timedout, atexit_handlers,
                 threads_started, setup_calls, mpc, status, expired, hpc,
                 notified, notifiedInTime, proc_status>>
  /\ UNCHANGED otherThanWatchdog

MainExitBlocks ==
  /\ Alive /\ mpc = "run"
  /\ wpc = "exiting"
  /\ mpc' = "exit_blocked"
  /\ UNCHANGED <<watchdog_thread, watchdog_mutex, test_timedout, atexit_handlers,
                 threads_started, setup_calls, wpc, status, expired, hpc,
                 notified, notifiedInTime, proc_status>>
  /\ UNCHANGED otherThanWatchdog

\* The steps of the exit handler running on thread t.
HandlerSteps(t) ==
  \/ HandlerCheck(t)
  \/ HandlerLock(t)
  \/ HandlerNotify(t)
  \/ HandlerUnlock(t)
  \/ HandlerJoin(t)

WaitForWatchdogThread ==
  \E t \in Threads :
    \/ HandlerCheck(t)
    \/ HandlerLock(t)
    \/ HandlerNotify(t)
    \/ HandlerUnlock(t)
    \/ HandlerJoin(t)

InitWatchdog ==
  /\ watchdog_thread = FALSE
  /\ watchdog_mutex = "free"
  /\ test_timedout = FALSE
  /\ atexit_handlers = 0
  /\ threads_started = 0
  /\ setup_calls = 0
  /\ mpc = "run"
  /\ wpc = "unborn"
  /\ status = "none"
  /\ expired = FALSE
  /\ hpc = [t \in Threads |-> "none"]
  /\ notified = FALSE
  /\ notifiedInTime = FALSE
  /\ proc_status = "running"

----------------------------------------------------------------------------
(* Device collection.                                                      *)

Handles == 1..MaxDevices

VK_NULL_HANDLE == 0

DevThreads == {"main", "aux"}

\* The record InitVulkanDevice builds for device h with the default single
\* queue request: its queue, its command pool, no buffers yet.
VulkanDevice(h) ==
  [ device |-> h,
    queues |-> << <<"queue", h, 0>> >>,
    queue |-> <<"queue", h, 0>>,
    commandPools |-> << <<"pool", h, 0>> >>,
    commandPool |-> <<"pool", h, 0>>,
    bufferIn |-> <<"unset">>,
    bufferOut |-> <<"unset">>,
    bufferMemory |-> <<"unset">> ]

\* Mutation: the matching record overwritten by the last one, which is
\* then popped.
EraseFirst_SwapPop(devs, h) ==
  LET hits == { i \in DOMAIN devs : devs[i].device = h }
  IN  IF hits = {} THEN devs
      ELSE LET k == CHOOSE i \in hits : \A j \in hits : i <= j
           IN  SubSeq([devs EXCEPT ![k] = devs[Len(devs)]], 1, Len(devs) - 1)

\* DeleteVulkanDevice, the loop: walk the vector from the front, erase the
\* first record whose handle is h and stop.
RECURSIVE EraseFrom(_, _, _)
EraseFrom(devs, h, i) ==
  IF i > Len(devs) THEN devs
  ELSE IF devs[i].device = h
    THEN SubSeq(devs, 1, i - 1) \o SubSeq(devs, i + 1, Len(devs))
    ELSE EraseFrom(devs, h, i + 1)

EraseFirst(devs, h) == EraseFrom(devs, h, 1)

\* Mutation: the lookup that hands out the front record whatever the handle.
FindDevice_Front(devs, h) ==
  IF devs = << >> THEN 0 ELSE 1

\* GetDevice, the find_if: the slot of the first record whose handle is h,
\* 0 (a null pointer) when there is none.
RECURSIVE FindFrom(_, _, _)
FindFrom(devs, h, i) ==
  IF i > Len(devs) THEN 0
  ELSE IF devs[i].device = h THEN i
  ELSE FindFrom(devs, h, i + 1)

FindDevice(devs, h) == FindFrom(devs, h, 1)

\* vkDestroyDevice on every record of the collection, front to back.
RECURSIVE DestroyAll(_, _, _)
DestroyAll(devs, counts, i) ==
  IF i > Len(devs) THEN counts
  ELSE DestroyAll(devs, [counts EXCEPT ![devs[i].device] = @ + 1], i + 1)

\* A thread enters an operation that starts with
\* std::lock_guard<std::mutex> lock(devices_lock).
BeginLocked(t, op, h) ==
  /\ tpc[t] = "idle"
  /\ ops < MaxOps
  /\ ops' = ops + 1
  /\ tpc' = [tpc EXCEPT ![t] = "lock"]
  /\ top' = [top EXCEPT ![t] = op]
  /\ targ' = [targ EXCEPT ![t] = h]

\* The end of an operation's lock_guard scope.
EndLocked(t) ==
  /\ devices_lock' = "free"
  /\ tpc' = [tpc EXCEPT ![t] = "idle"]

\* InitVulkanDevice up to the registration: vkCreateDevice returns a handle
\* no live device has; the record is built on the stack.
CallInitVulkanDevice(t) ==
  /\ Len(devices) < MaxDevices
  /\ \E h \in Handles \ live :
       /\ BeginLocked(t, "InitVulkanDevice", h)
       /\ live' = live \cup {h}
  /\ UNCHANGED <<devices, devices_lock, destroyed, instance_destroyed, tres, lastDelete>>
  /\ UNCHANGED otherThanDevices

CallGetDevice(t) ==
  /\ \E h \in Handles : BeginLocked(t, "GetDevice", h)
  /\ UNCHANGED <<devices, devices_lock, live, destroyed, instance_destroyed, tres, lastDelete>>
  /\ UNCHANGED otherThanDevices

CallDeleteVulkanDevice(t) ==
  /\ \E h \in Handles : BeginLocked(t, "DeleteVulkanDevice", h)
  /\ UNCHANGED <<devices, devices_lock, live, destroyed, instance_destroyed, tres, lastDelete>>
  /\ UNCHANGED otherThanDevices

CallCleanupVulkan(t) ==
  /\ BeginLocked(t, "CleanupVulkan", VK_NULL_HANDLE)
  /\ UNCHANGED <<devices, devices_lock, live, destroyed, instance_destroyed, tres, lastDelete>>
  /\ UNCHANGED otherThanDevices

\* GetSingleDevice takes no lock: the thread goes straight to the vector.
CallGetSingleDevice(t) ==
  /\ tpc[t] = "idle"
  /\ ops < MaxOps
  /\ ops' = ops + 1
  /\ tpc' = [tpc EXCEPT ![t] = "access"]
  /\ top' = [top EXCEPT ![t] = "GetSingleDevice"]
  /\ targ' = [targ EXCEPT ![t] = VK_NULL_HANDLE]
  /\ UNCHANGED <<devices, devices_lock, live, destroyed, instance_destroyed, tres, lastDelete>>
  /\ UNCHANGED otherThanDevices

\* The lock_guard constructor returns once the mutex is free.
AcquireDevicesLock(t) ==
  /\ tpc[t] = "lock"
  /\ devices_lock = "free"
  /\ devices_lock' = t
  /\ tpc' = [tpc EXCEPT ![t] = "access"]
  /\ UNCHANGED <<devices, live, destroyed, instance_destroyed, top, targ, tres, ops, lastDelete>>
  /\ UNCHANGED otherThanDevices

\* context->devices.push_back(device); return vk_device;
InitVulkanDevice(t) ==
  /\ tpc[t] = "access" /\ top[t] = "InitVulkanDevice"
  /\ devices' = Append(devices, VulkanDevice(targ[t]))
  /\ EndLocked(t)
  /\ UNCHANGED <<live, destroyed, instance_destroyed, top, targ, tres, ops, lastDelete>>
  /\ UNCHANGED otherThanDevices

GetDevice(t) ==
  /\ tpc[t] = "access" /\ top[t] = "GetDevice"
  /\ tres' = [tres EXCEPT ![t] = FindDevice(devices, targ[t])]
  /\ EndLocked(t)
  /\ UNCHANGED <<devices, live, destroyed, instance_destroyed, top, targ, ops, lastDelete>>
  /\ UNCHANGED otherThanDevices

\* assert(devices.size() == 1); return &devices[0];
GetSingleDevice(t) ==
  /\ tpc[t] = "access" /\ top[t] = "GetSingleDevice"
  /\ tres' = [tres EXCEPT ![t] = 1]
  /\ tpc' = [tpc EXCEPT ![t] = "idle"]
  /\ UNCHANGED <<devices, devices_lock, live, destroyed, instance_destroyed, top, targ, ops, lastDelete>>
  /\ UNCHANGED otherThanDevices

\* The erase loop, then vkDestroyDevice(vk_device) whether or not a record
\* was found, all inside the lock_guard scope.
DeleteVulkanDevice(t) ==
  /\ tpc[t] = "access" /\ top[t] = "DeleteVulkanDevice"
  /\ devices' = EraseFirst(devices, targ[t])
  /\ destroyed' = [destroyed EXCEPT ![targ[t]] = @ + 1]
  /\ live' = live \ {targ[t]}
  /\ lastDelete' = [ h |-> targ[t], pre |-> devices, post |-> devices',
                     destroyedPre |-> destroyed, destroyedPost |-> destroyed' ]
  /\ EndLocked(t)
  /\ UNCHANGED <<instance_destroyed, top, targ, tres, ops>>
  /\ UNCHANGED otherThanDevices

\* vkDestroyDevice on every record, devices.clear(), vkDestroyInstance.
CleanupVulkan(t) ==
  /\ tpc[t] = "access" /\ top[t] = "CleanupVulkan"
  /\ destroyed' = DestroyAll(devices, destroyed, 1)
  /\ live' = live \ { devices[i].device : i \in DOMAIN devices }
  /\ devices' = << >>
  /\ instance_destroyed' = instance_destroyed + 1
  /\ EndLocked(t)
  /\ UNCHANGED <<top, targ, tres, ops, lastDelete>>
  /\ UNCHANGED otherThanDevices

InitDevices ==
  /\ devices = << >>
  /\ devices_lock = "free"
  /\ live = {}
  /\ destroyed = [h \in Handles |-> 0]
  /\ instance_destroyed = 0
  /\ tpc = [t \in DevThreads |-> "idle"]
  /\ top = [t \in DevThreads |-> "none"]
  /\ targ = [t \in DevThreads |-> VK_NULL_HANDLE]
  /\ tres = [t \in DevThreads |-> 0]
  /\ ops = 0
  /\ lastDelete = [ h |-> VK_NULL_HANDLE, pre |-> << >>, post |-> << >>,
                    destroyedPre |-> [h \in Handles |-> 0],
                    destroyedPost |-> [h \in Handles |-> 0] ]

----------------------------------------------------------------------------
(* hang_host_event_multi_device.cc: three devices on one instance.         *)

MdRunning == md_exit = "running"

\* The handle main passes to the TestVulkan it is in, and whether that
\* call asks for the hang.
TestArg == CASE md_pc = "test1" -> created[1]
             [] md_pc = "test2" -> created[2]
             [] md_pc = "test3" -> created[3]

TestHangs == md_pc = "test3"

AfterTest == CASE md_pc = "test1" -> "test2"
               [] md_pc = "test2" -> "delete2"
               [] md_pc = "test3" -> "done"

\* The device a queue handle belongs to.
QueueOwner(q) == q[2]

\* VK_VALIDATE_RESULT inside TestVulkan: exit(0) on anything but success.
TestValidate(res, next) ==
  IF res = VK_SUCCESS
    THEN /\ tv_pc' = next
         /\ UNCHANGED md_exit
    ELSE /\ md_exit' = "0"
         /\ UNCHANGED tv_pc

\* VkDevice deviceN = InitVulkanDevice(&context, nullptr, ...): the driver
\* returns a fresh handle and the record is appended.
MdInitVulkanDevice ==
  /\ MdRunning /\ md_pc \in {"init1", "init2", "init3"}
  /\ \E h \in Handles \ live :
       /\ live' = live \cup {h}
       /\ devices' = Append(devices, VulkanDevice(h))
       /\ created' = Append(created, h)
  /\ md_pc' = CASE md_pc = "init1" -> "init2"
                [] md_pc = "init2" -> "init3"
                [] md_pc = "init3" -> "setup"
  /\ UNCHANGED <<devices_lock, destroyed, instance_destroyed, tpc, top, targ,
                 tres, ops, lastDelete>>
  /\ UNCHANGED <<tv_pc, tv_device, hungDevices, lostDevices, md_exit, before>>
  /\ UNCHANGED <<crashVars, wdVars, restVars>>

\* A VK_CHECK_RESULT inside InitVulkanDevice fails its assert.
MdInitVulkanDeviceAborts ==
  /\ MdRunning /\ md_pc \in {"init1", "init2", "init3"}
  /\ md_exit' = "aborted"
  /\ UNCHANGED <<md_pc, created, tv_pc, tv_device, hungDevices, lostDevices, before>>
  /\ UNCHANGED <<crashVars, wdVars, devVars, restVars>>

MdSetupWatchdogTimer ==
  /\ MdRunning /\ md_pc = "setup"
  /\ SetupWatchdogTimer
  /\ setup_calls' = setup_calls + 1
  /\ md_pc' = "test1"
  /\ UNCHANGED <<watchdog_mutex, test_timedout, mpc, status, expired, hpc,
                 notified, notifiedInTime, proc_status>>
  /\ UNCHANGED <<created, tv_pc, tv_device, hungDevices, lostDevices, md_exit, before>>
  /\ UNCHANGED <<crashVars, devVars, restVars>>

\* auto device = context.GetDevice(vk_device); assert(device != nullptr);
TestVulkanGetDevice ==
  /\ MdRunning /\ md_pc \in {"test1", "test2", "test3"} /\ tv_pc = "none"
  /\ tv_device' = FindDevice(devices, TestArg)
  /\ IF tv_device' = 0
       THEN md_exit' = "aborted" /\ UNCHANGED tv_pc
       ELSE tv_pc' = "alloc" /\ UNCHANGED md_exit
  /\ UNCHANGED <<md_pc, created, hungDevices, lostDevices, before>>
  /\ UNCHANGED <<crashVars, wdVars, devVars, restVars>>

\* AllocateInputOutputBuffers(device): buffers and memory created on
\* vk_device and stored through the pointer; a failure fails an assert.
TestVulkanAllocate ==
  /\ MdRunning /\ tv_pc = "alloc"
  /\ \E res \in HostCallResults :
       IF res = VK_SUCCESS
         THEN /\ LET vk_device == devices[tv_device].device
                 IN  devices' = [devices EXCEPT ![tv_device] =
                       [@ EXCEPT !.bufferIn = <<"bufferIn", vk_device>>,
                                 !.bufferOut = <<"bufferOut", vk_device>>,
                                 !.bufferMemory = <<"memory", vk_device>>]]
              /\ tv_pc' = IF TestHangs THEN "submit1" ELSE "idle"
              /\ UNCHANGED md_exit
         ELSE /\ md_exit' = "aborted"
              /\ UNCHANGED <<devices, tv_pc>>
  /\ UNCHANGED <<devices_lock, live, destroyed, instance_destroyed, tpc, top,
                 targ, tres, ops, lastDelete>>
  /\ UNCHANGED <<md_pc, created, tv_device, hungDevices, lostDevices, before>>
  /\ UNCHANGED <<crashVars, wdVars, restVars>>

\* Submit 1 carries the wait on an event that is never signalled; Submit 2
\* is the plain dispatch. Both go to device->queue.
TestVulkanSubmit ==
  /\ MdRunning /\ tv_pc \in {"submit1", "submit2"}
  /\ LET owner == QueueOwner(devices[tv_device].queue)
     IN  \E res \in vkQueueSubmitResults(owner \in lostDevices) :
           /\ TestValidate(res, IF tv_pc = "submit1" THEN "idle1" ELSE "idle")
           /\ hungDevices' = IF res = VK_SUCCESS /\ tv_pc = "submit1"
                               THEN hungDevices \cup {owner}
                               ELSE hungDevices
  /\ UNCHANGED <<md_pc, created, tv_device, lostDevices, before>>
  /\ UNCHANGED <<crashVars, wdVars, devVars, restVars>>

\* vkQueueWaitIdle(device->queue) under VK_VALIDATE_RESULT; the second one
\* ends TestVulkan.
TestVulkanWaitIdle ==
  /\ MdRunning /\ tv_pc \in {"idle1", "idle"}
  /\ LET owner == QueueOwner(devices[tv_device].queue)
     IN  /\ vkQueueWaitIdleReturns(owner \in lostDevices, owner \in hungDevices)
         /\ \E res \in vkQueueWaitIdleResults(owner \in lostDevices) :
              IF tv_pc = "idle1"
                THEN TestValidate(res, "submit2") /\ UNCHANGED md_pc
                ELSE /\ TestValidate(res, "none")
                     /\ md_pc' = IF res = VK_SUCCESS THEN AfterTest ELSE md_pc
  /\ UNCHANGED <<created, tv_device, hungDevices, lostDevices, before>>
  /\ UNCHANGED <<crashVars, wdVars, devVars, restVars>>

\* DeleteVulkanDevice(&context, device2)
MdDeleteVulkanDevice ==
  /\ MdRunning /\ md_pc = "delete2"
  /\ before' = [k \in 1..3 |-> devices[FindDevice(devices, created[k])]]
  /\ devices' = EraseFirst(devices, created[2])
  /\ destroyed' = [destroyed EXCEPT ![created[2]] = @ + 1]
  /\ live' = live \ {created[2]}
  /\ lastDelete' = [ h |-> created[2], pre |-> devices, post |-> devices',
                     destroyedPre |-> destroyed, destroyedPost |-> destroyed' ]
  /\ md_pc' = "test3"
  /\ UNCHANGED <<devices_lock, instance_destroyed, tpc, top, targ, tres, ops>>
  /\ UNCHANGED <<created, tv_pc, tv_device, hungDevices, lostDevices, md_exit>>
  /\ UNCHANGED <<crashVars, wdVars, restVars>>

\* The driver notices the hang on one device and declares that device lost.
MdDeviceLost ==
  /\ MdRunning
  /\ \E h \in hungDevices \ lostDevices : lostDevices' = lostDevices \cup {h}
  /\ UNCHANGED <<md_pc, created, tv_pc, tv_device, hungDevices, md_exit, before>>
  /\ UNCHANGED <<crashVars, wdVars, devVars, restVars>>

\* The watchdog thread's timer runs out: test_timedout = true; exit(0).
MdWatchdogTimer ==
  /\ MdRunning /\ watchdog_thread
  /\ test_timedout' = TRUE
  /\ md_exit' = "0"
  /\ UNCHANGED <<watchdog_thread, watchdog_mutex, atexit_handlers,
                 threads_started, setup_calls, mpc, wpc, status, expired, hpc,
                 notified, notifiedInTime, proc_status>>
  /\ UNCHANGED <<md_pc, created, tv_pc, tv_device, hungDevices, lostDevices, before>>
  /\ UNCHANGED <<crashVars, devVars, restVars>>

InitMultiDevice ==
  /\ md_pc = "init1"
  /\ created = << >>
  /\ tv_pc = "none"
  /\ tv_device = 0
  /\ hungDevices = {}
  /\ lostDevices = {}
  /\ md_exit = "running"
  /\ before = << >>

----------------------------------------------------------------------------
(* InitVulkan in a single-context test program (hang_host_event.cc main).  *)

VK_ERROR_INCOMPATIBLE_DRIVER == "VK_ERROR_INCOMPATIBLE_DRIVER"

\* The driver calls InitVulkanDevice wraps in VK_CHECK_RESULT, in order,
\* for the default single queue and a shader module.
InitVulkanDeviceCalls ==
  << "vkEnumeratePhysicalDevices", "vkEnumeratePhysicalDevices",
     "vkCreateDevice", "vkCreateCommandPool", "vkCreateDescriptorPool",
     "vkCreateDescriptorSetLayout", "vkCreatePipelineLayout",
     "vkCreateComputePipelines" >>

IvRunning == iv_exit = "running"

\* vkCreateInstance and the two early returns of InitVulkanInstance.
IvInitVulkanInstance ==
  /\ IvRunning /\ iv_pc = "instance"
  /\ \E res \in {VK_SUCCESS, VK_ERROR_INCOMPATIBLE_DRIVER, VK_ERROR_OUT_OF_HOST_MEMORY} :
       IF res = VK_SUCCESS
         THEN /\ iv_pc' = "device"
              /\ UNCHANGED <<iv_ok, iv_exit>>
         ELSE /\ iv_ok' = "false"
              /\ iv_exit' = "1"
              /\ UNCHANGED iv_pc
  /\ UNCHANGED <<build, iv_step, iv_failed, iv_device, iv_ret>>
  /\ UNCHANGED otherThanIv

\* One VK_CHECK_RESULT(...) of InitVulkanDevice: a failure is logged and
\* asserted on, which aborts a debug build and is compiled out of a
\* release build, where the function carries on.  vkCreateDevice writes
\* device.device on success only; after a failure the field holds whatever
\* the uninitialised local held.
IvCheckedCall ==
  /\ IvRunning /\ iv_pc = "device"
  /\ LET call == InitVulkanDeviceCalls[iv_step]
         after == IF iv_step = Len(InitVulkanDeviceCalls)
                    THEN "register" ELSE "device"
     IN  \E res \in HostCallResults :
           IF res = VK_SUCCESS
             THEN /\ IF call = "vkCreateDevice"
                       THEN \E h \in Handles \ live :
                              /\ iv_device' = h
                              /\ live' = live \cup {h}
                       ELSE UNCHANGED <<iv_device, live>>
                  /\ iv_step' = iv_step + 1
                  /\ iv_pc' = after
                  /\ UNCHANGED <<iv_failed, iv_exit>>
             ELSE /\ iv_failed' = iv_failed \cup {iv_step}
                  /\ UNCHANGED live
                  /\ IF build = "debug"
                       THEN /\ iv_exit' = "aborted"
                            /\ UNCHANGED <<iv_device, iv_step, iv_pc>>
                       ELSE /\ IF call = "vkCreateDevice"
                                 THEN iv_device' \in Handles \cup {VK_NULL_HANDLE}
                                 ELSE UNCHANGED iv_device
                            /\ iv_step' = iv_step + 1
                            /\ iv_pc' = after
                            /\ UNCHANGED iv_exit
  /\ UNCHANGED <<build, iv_ret, iv_ok>>
  /\ UNCHANGED <<devices, devices_lock, destroyed, instance_destroyed, tpc, top,
                 targ, tres, ops, lastDelete>>
  /\ UNCHANGED <<crashVars, wdVars, mdVars, afterIvVars>>

\* context->devices.push_back(device); return vk_device;
IvRegister ==
  /\ IvRunning /\ iv_pc = "register"
  /\ devices' = Append(devices, VulkanDevice(iv_device))
  /\ iv_ret' = <<iv_device>>
  /\ iv_pc' = "returned"
  /\ UNCHANGED <<build, iv_step, iv_failed, iv_device, iv_ok, iv_exit>>
  /\ UNCHANGED <<devices_lock, live, destroyed, instance_destroyed, tpc, top,
                 targ, tres, ops, lastDelete>>
  /\ UNCHANGED <<crashVars, wdVars, mdVars, afterIvVars>>

\* InitVulkan after InitVulkanDevice returned, and main's
\* if (!InitVulkan(...)) return 1.
IvInitVulkanReturns ==
  /\ IvRunning /\ iv_pc = "returned"
  /\ IF iv_ret = <<VK_NULL_HANDLE>>
       THEN /\ iv_ok' = "false"
            /\ iv_exit' = "1"
            /\ UNCHANGED wdVars
       ELSE /\ SetupWatchdogTimer
            /\ setup_calls' = setup_calls + 1
            /\ iv_ok' = "true"
            /\ iv_exit' = "test"
            /\ UNCHANGED <<watchdog_mutex, test_timedout, mpc, status, expired,
                           hpc, notified, notifiedInTime, proc_status>>
  /\ iv_pc' = "done"
  /\ UNCHANGED <<build, iv_step, iv_failed, iv_device, iv_ret>>
  /\ UNCHANGED <<crashVars, devVars, mdVars, afterIvVars>>

InitInitVulkan ==
  /\ build \in {"debug", "release"}
  /\ iv_pc = "instance"
  /\ iv_step = 1
  /\ iv_failed = {}
  /\ iv_device = VK_NULL_HANDLE
  /\ iv_ret = << >>
  /\ iv_ok = "none"
  /\ iv_exit = "running"

IdleInitVulkan == build = "debug" /\ InitInitVulkan

----------------------------------------------------------------------------
(* SelectQueue.                                                            *)

VK_QUEUE_GRAPHICS_BIT == 1
VK_QUEUE_COMPUTE_BIT == 2
VK_QUEUE_TRANSFER_BIT == 4

\* Every combination of the three capability bits.
QueueFlagValues == 0..7

QueueType == {"Undefined", "Graphics", "Compute", "Transfer"}

\* flags & bit, for a single-bit mask: bit when it is set in flags, else 0.
BitAnd(flags, bit) == IF (flags \div bit) % 2 = 1 THEN bit ELSE 0

\* Mutation: the Compute branch without its exclusion of graphics.
QueueMatches_ComputeAny(queueFlags, type) ==
  IF type = "Compute"
    THEN BitAnd(queueFlags, VK_QUEUE_COMPUTE_BIT) # 0
    ELSE IF type = "Transfer"
      THEN /\ BitAnd(queueFlags, VK_QUEUE_TRANSFER_BIT) # 0
           /\ ~(BitAnd(queueFlags, VK_QUEUE_GRAPHICS_BIT) # 0)
           /\ ~(BitAnd(queueFlags, VK_QUEUE_COMPUTE_BIT) # 0)
      ELSE VK_QUEUE_GRAPHICS_BIT = BitAnd(queueFlags, VK_QUEUE_GRAPHICS_BIT)

\* The lambda handed to find_if.
QueueMatches(queueFlags, type) ==
  IF type = "Compute"
    THEN /\ BitAnd(queueFlags, VK_QUEUE_COMPUTE_BIT) # 0
         /\ ~(BitAnd(queueFlags, VK_QUEUE_GRAPHICS_BIT) # 0)
    ELSE IF type = "Transfer"
      THEN /\ BitAnd(queueFlags, VK_QUEUE_TRANSFER_BIT) # 0
           /\ ~(BitAnd(queueFlags, VK_QUEUE_GRAPHICS_BIT) # 0)
           /\ ~(BitAnd(queueFlags, VK_QUEUE_COMPUTE_BIT) # 0)
      ELSE VK_QUEUE_GRAPHICS_BIT = BitAnd(queueFlags, VK_QUEUE_GRAPHICS_BIT)

\* find_if from the front, then std::distance(begin, it): the 0-based
\* position of the first match, the family count when find_if returns end.
RECURSIVE SelectQueueFrom(_, _, _)
SelectQueueFrom(families, type, i) ==
  IF i > Len(families) THEN Len(families)
  ELSE IF QueueMatches(families[i], type) THEN i - 1
  ELSE SelectQueueFrom(families, type, i + 1)

SelectQueue(families, type) == SelectQueueFrom(families, type, 1)

\* Every list of at most n queue families.
FamilyLists(n) == UNION { [1..k -> QueueFlagValues] : k \in 0..n }

\* auto queue_family_index = SelectQueue(physicalDevice, queue_type);
CallSelectQueue ==
  /\ sq_pc = "call"
  /\ queue_index' = SelectQueue(queue_families, queue_type)
  /\ sq_pc' = "returned"
  /\ UNCHANGED <<queue_families, queue_type>>
  /\ UNCHANGED otherThanSq

InitSelectQueue ==
  /\ queue_families \in FamilyLists(MaxFamilies)
  /\ queue_type \in QueueType
  /\ sq_pc = "call"
  /\ queue_index = 0

IdleSelectQueue ==
  /\ queue_families = << >>
  /\ queue_type = "Undefined"
  /\ sq_pc = "call"
  /\ queue_index = 0

----------------------------------------------------------------------------
(* FindMemoryType.                                                         *)

\* Every combination of two memory property bits.
PropertyFlagValues == 0..3

\* a & b on non-negative integers.
RECURSIVE BitwiseAnd(_, _)
BitwiseAnd(a, b) ==
  IF a = 0 \/ b = 0 THEN 0
  ELSE (a % 2) * (b % 2) + 2 * BitwiseAnd(a \div 2, b \div 2)

\* 1 << i
ShiftLeftOne(i) == 2 ^ i

\* A 32-bit unsigned value as its two 16-bit halves <<high, low>>; an int
\* is converted modulo 2^32, so -1 becomes <<65535, 65535>>.
Uint32(n) ==
  IF n >= 0
    THEN << n \div 65536, n % 65536 >>
    ELSE LET m == (n + 2147483647) + 1
         IN  << 32768 + (m \div 65536), m % 65536 >>

\* Mutation: a type accepted as soon as it has one of the required flags.
MemoryTypeMatches_AnyFlag(types, bits, props, i) ==
  /\ BitwiseAnd(bits, ShiftLeftOne(i)) # 0
  /\ BitwiseAnd(types[i + 1], props) # 0

\* The condition of the loop body, for the 0-based index i.
MemoryTypeMatches(types, bits, props, i) ==
  /\ BitwiseAnd(bits, ShiftLeftOne(i)) # 0
  /\ BitwiseAnd(types[i + 1], props) = props

\* for (uint32_t i = 0; i < memoryTypeCount; ++i) ... return i;  return -1;
RECURSIVE FindMemoryTypeFrom(_, _, _, _)
FindMemoryTypeFrom(types, bits, props, i) ==
  IF ~(i < Len(types)) THEN Uint32(0 - 1)
  ELSE IF MemoryTypeMatches(types, bits, props, i) THEN Uint32(i)
  ELSE FindMemoryTypeFrom(types, bits, props, i + 1)

FindMemoryType(types, bits, props) == FindMemoryTypeFrom(types, bits, props, 0)

MemoryTypeLists(n) == UNION { [1..k -> PropertyFlagValues] : k \in 0..n }

CallFindMemoryType ==
  /\ fm_pc = "call"
  /\ memoryTypeIndex' = FindMemoryType(memoryTypes, memoryTypeBits, memoryProperties)
  /\ fm_pc' = "returned"
  /\ UNCHANGED <<memoryTypes, memoryTypeBits, memoryProperties>>
  /\ UNCHANGED otherThanFm

InitFindMemoryType ==
  /\ memoryTypes \in MemoryTypeLists(MaxMemoryTypes)
  /\ memoryTypeBits \in 0..(2 ^ MaxMemoryTypes - 1)
  /\ memoryProperties \in PropertyFlagValues
  /\ fm_pc = "call"
  /\ memoryTypeIndex = <<0, 0>>

IdleFindMemoryType ==
  /\ memoryTypes = << >>
  /\ memoryTypeBits = 0
  /\ memoryProperties = 0
  /\ fm_pc = "call"
  /\ memoryTypeIndex = <<0, 0>>

----------------------------------------------------------------------------
(* AllocateInputOutputBuffers.                                             *)

BufferInitialization == {"None", "Default", "MinusOne", "_64K", "Transfer"}

\* sizeof(float)
SizeofFloat == 4

\* int bufferSize = sizeof(float) * numBufferEntries;
BufferSize(n) == SizeofFloat * n

\* int memorySize = 2 * bufferSize;
MemorySize(n) == 2 * BufferSize(n)

\* The IEEE-754 single-precision bit pattern of the floats the function
\* stores, as <<high, low>> 16-bit halves.
FloatBits(v) ==
  CASE v = 0 -> <<0, 0>>
    [] v = 0 - 1 -> <<49024, 0>>
    [] v = 2 -> <<16384, 0>>
    [] v = 4 -> <<16512, 0>>
    [] v = 6 -> <<16576, 0>>
    [] v = 8 -> <<16640, 0>>
    [] v = 10 -> <<16672, 0>>

\* What the words of a fresh allocation may hold.
FreshWords == { <<0, 0>>, <<43690, 43690>> }

\* The loops over the input region: *pBufferData++ = ... for
\* i = 0 .. numBufferEntries - 1, starting at pBuffer.
InitializeInput(mem, mode, n) ==
  [ w \in DOMAIN mem |->
      IF w < n
        THEN CASE mode = "Default" -> FloatBits(2 + w * 2)
               [] mode = "MinusOne" -> FloatBits(0 - 1)
               [] mode = "_64K" -> Uint32(65535)
               [] OTHER -> mem[w]
        ELSE mem[w] ]

\* Mutation: the zeroing loop started at pBuffer itself.
ZeroOutput_FromStart(mem, n) ==
  [ w \in DOMAIN mem |-> IF w < n THEN FloatBits(0) ELSE mem[w] ]

\* float* pBufferData = (float*)pBuffer + numBufferEntries; then
\* numBufferEntries stores of 0.
ZeroOutput(mem, n) ==
  [ w \in DOMAIN mem |->
      IF w >= n /\ w < n + n THEN FloatBits(0) ELSE mem[w] ]

\* vkCreateBuffer twice and vkAllocateMemory(memorySize); the driver hands
\* back memory with whatever content it had.
AbCreateAndAllocate ==
  /\ ab_pc = "create"
  /\ \E res \in HostCallResults :
       IF res = VK_SUCCESS
         THEN /\ allocationSize' = MemorySize(numBufferEntries)
              /\ bufferMemory' \in
                   [0..(MemorySize(numBufferEntries) \div SizeofFloat - 1) -> FreshWords]
              /\ ab_pc' = "bind"
         ELSE /\ ab_pc' = "failed"
              /\ UNCHANGED <<allocationSize, bufferMemory>>
  /\ UNCHANGED <<initialization, numBufferEntries, bindIn, bindOut>>
  /\ UNCHANGED otherThanAb

\* vkBindBufferMemory(bufferIn, bufferMemory, 0) and
\* vkBindBufferMemory(bufferOut, bufferMemory, bufferSize).
AbBind ==
  /\ ab_pc = "bind"
  /\ \E res \in HostCallResults :
       IF res = VK_SUCCESS
         THEN /\ bindIn' = 0
              /\ bindOut' = BufferSize(numBufferEntries)
              /\ ab_pc' = IF initialization # "None" THEN "init" ELSE "done"
         ELSE /\ ab_pc' = "failed"
              /\ UNCHANGED <<bindIn, bindOut>>
  /\ UNCHANGED <<initialization, numBufferEntries, bufferMemory, allocationSize>>
  /\ UNCHANGED otherThanAb

\* vkMapMemory, the input loop of the mode, the zeroing loop, vkUnmapMemory.
AbInitialize ==
  /\ ab_pc = "init"
  /\ \E res \in HostCallResults :
       IF res = VK_SUCCESS
         THEN /\ bufferMemory' =
                   ZeroOutput(InitializeInput(bufferMemory, initialization,
                                              numBufferEntries),
                              numBufferEntries)
              /\ ab_pc' = "done"
         ELSE /\ ab_pc' = "failed"
              /\ UNCHANGED bufferMemory
  /\ UNCHANGED <<initialization, numBufferEntries, allocationSize, bindIn, bindOut>>
  /\ UNCHANGED otherThanAb

InitAllocateBuffers ==
  /\ initialization \in BufferInitialization
  /\ numBufferEntries \in 1..MaxBufferEntries
  /\ bufferMemory = << >>
  /\ allocationSize = 0
  /\ bindIn = 0 - 1
  /\ bindOut = 0 - 1
  /\ ab_pc = "create"

IdleAllocateBuffers ==
  /\ initialization = "Default"
  /\ numBufferEntries = 1
  /\ bufferMemory = << >>
  /\ allocationSize = 0
  /\ bindIn = 0 - 1
  /\ bindOut = 0 - 1
  /\ ab_pc = "create"

----------------------------------------------------------------------------
(* CreateSubmitInfo.                                                       *)

Semaphores == {"binary_semaphore", "timeline_semaphore"}

StageMasks == {"ALL_GRAPHICS", "COMPUTE_SHADER"}

\* Every vector of at most n elements of S.
Vectors(S, n) == UNION { [1..k -> S] : k \in 0..n }

\* VkSubmitInfo submit_info = {};
ZeroSubmitInfo ==
  [ commandBufferCount |-> 0, pCommandBuffers |-> << >>,
    waitSemaphoreCount |-> 0, pWaitSemaphores |-> << >>,
    pWaitDstStageMask |-> << >>,
    signalSemaphoreCount |-> 0, pSignalSemaphores |-> << >>,
    pNext |-> "null" ]

\* Mutation: the extension chain left out of the descriptor.
CreateSubmitInfo_NoChain(command_buffer, wait, masks, signal, next) ==
  LET a == [ZeroSubmitInfo EXCEPT !.commandBufferCount = 1,
                                  !.pCommandBuffers = <<command_buffer>>]
      b == IF wait # << >>
             THEN [a EXCEPT !.waitSemaphoreCount = Len(wait[1]),
                            !.pWaitSemaphores = wait,
                            !.pWaitDstStageMask = masks]
             ELSE a
  IN  IF signal # << >>
        THEN [b EXCEPT !.signalSemaphoreCount = Len(signal[1]),
                       !.pSignalSemaphores = signal]
        ELSE b

\* The function body: a pointer to a vector's data is the vector it
\* points into, << >> a null pointer.
CreateSubmitInfo(command_buffer, wait, masks, signal, next) ==
  LET a == [ZeroSubmitInfo EXCEPT !.commandBufferCount = 1,
                                  !.pCommandBuffers = <<command_buffer>>]
      b == IF wait # << >>
             THEN [a EXCEPT !.waitSemaphoreCount = Len(wait[1]),
                            !.pWaitSemaphores = wait,
                            !.pWaitDstStageMask = masks]
             ELSE a
      c == IF signal # << >>
             THEN [b EXCEPT !.signalSemaphoreCount = Len(signal[1]),
                            !.pSignalSemaphores = signal]
             ELSE b
  IN  [c EXCEPT !.pNext = next]

CallCreateSubmitInfo ==
  /\ si_pc = "call"
  /\ submit_info' = CreateSubmitInfo("commandBuffer", wait_semaphores,
                                     wait_dst_stage_masks, signal_semaphores, pnext)
  /\ si_pc' = "returned"
  /\ UNCHANGED <<wait_semaphores, wait_dst_stage_masks, signal_semaphores, pnext>>
  /\ UNCHANGED otherThanSi

\* The callers pass the wait list and the stage masks together, of one
\* length, or neither.
InitCreateSubmitInfo ==
  /\ wait_semaphores \in {<< >>} \cup { <<v>> : v \in Vectors(Semaphores, MaxSemaphores) }
  /\ wait_dst_stage_masks \in
       IF wait_semaphores = << >>
         THEN {<< >>}
         ELSE { <<m>> : m \in [1..Len(wait_semaphores[1]) -> StageMasks] }
  /\ signal_semaphores \in {<< >>} \cup { <<v>> : v \in Vectors(Semaphores, MaxSemaphores) }
  /\ pnext \in {"null", "timelineSemaphoreSubmitInfo"}
  /\ si_pc = "call"
  /\ submit_info = ZeroSubmitInfo

IdleCreateSubmitInfo ==
  /\ wait_semaphores = << >>
  /\ wait_dst_stage_masks = << >>
  /\ signal_semaphores = << >>
  /\ pnext = "null"
  /\ si_pc = "call"
  /\ submit_info = ZeroSubmitInfo

----------------------------------------------------------------------------
(* buffer_marker_test.cc: the marker buffer.                               *)

\* The words TestVulkan prints.
PrintedMarkers == 4

\* 0xDEADBEEF and 0x0BADF00D as <<high, low>> halves.
MarkerDeadBeef == <<57005, 48879>>
MarkerBadFood == <<2989, 61453>>

\* The commands recorded into commandBuffer between vkBeginCommandBuffer
\* and vkEndCommandBuffer, in order.
MarkerCommands ==
  << [op |-> "vkCmdBindPipeline"],
     [op |-> "vkCmdBindDescriptorSets"],
     [op |-> "CmdWriteBufferMarkerAMD", stage |-> "TOP_OF_PIPE",
      dstOffset |-> 0, marker |-> MarkerDeadBeef],
     [op |-> "vkCmdDispatch"],
     [op |-> "vkCmdDispatch"],
     [op |-> "CmdWriteBufferMarkerAMD", stage |-> "BOTTOM_OF_PIPE",
      dstOffset |-> 4, marker |-> MarkerBadFood] >>

\* Mutation: the destination offset taken as a word index.
WriteMarker_WordIndex(buf, dstOffset, marker) ==
  [buf EXCEPT ![dstOffset] = marker]

\* The device stores the 32-bit marker at byte offset dstOffset.
WriteMarker(buf, dstOffset, marker) ==
  [buf EXCEPT ![dstOffset \div 4] = marker]

\* vkCreateBuffer, vkAllocateMemory, vkBindBufferMemory, vkMapMemory.
MkAllocate ==
  /\ mk_pc = "alloc"
  /\ \E res \in HostCallResults :
       IF res = VK_SUCCESS
         THEN /\ markerBuffer' \in [0..(markerEntries - 1) -> FreshWords]
              /\ mk_pc' = "init"
         ELSE /\ mk_pc' = "failed"
              /\ UNCHANGED markerBuffer
  /\ UNCHANGED <<markerEntries, mk_i, commandBuffer, gpu_next, gpu_running>>
  /\ UNCHANGED otherThanMk

\* for (int i = 0; i < numBufferEntries; ++i) *pBufferData++ = i;
MkInitialize ==
  /\ mk_pc = "init"
  /\ IF mk_i < markerEntries
       THEN /\ markerBuffer' = [markerBuffer EXCEPT ![mk_i] = Uint32(mk_i)]
            /\ mk_i' = mk_i + 1
            /\ UNCHANGED mk_pc
       ELSE /\ mk_pc' = "record"
            /\ UNCHANGED <<markerBuffer, mk_i>>
  /\ UNCHANGED <<markerEntries, commandBuffer, gpu_next, gpu_running>>
  /\ UNCHANGED otherThanMk

\* One more command recorded; vkEndCommandBuffer after the last.
MkRecord ==
  /\ mk_pc = "record"
  /\ commandBuffer' = Append(commandBuffer, MarkerCommands[Len(commandBuffer) + 1])
  /\ mk_pc' = IF Len(commandBuffer') = Len(MarkerCommands) THEN "submit" ELSE "record"
  /\ UNCHANGED <<markerEntries, markerBuffer, mk_i, gpu_next, gpu_running>>
  /\ UNCHANGED otherThanMk

\* vkQueueSubmit(device->queue, 1, &submitInfo, VK_NULL_HANDLE)
MkSubmit ==
  /\ mk_pc = "submit"
  /\ \E res \in vkQueueSubmitResults(FALSE) :
       IF res = VK_SUCCESS
         THEN gpu_next' = 1 /\ mk_pc' = "idle"
         ELSE mk_pc' = "failed" /\ UNCHANGED gpu_next
  /\ UNCHANGED <<markerEntries, markerBuffer, mk_i, commandBuffer, gpu_running>>
  /\ UNCHANGED otherThanMk

\* The queue issues its next command: a top-of-pipe marker is written as
\* the command is reached, a dispatch starts, a bottom-of-pipe marker is
\* written once the work before it has completed.
GpuIssue ==
  /\ gpu_next \in 1..Len(commandBuffer)
  /\ LET cmd == commandBuffer[gpu_next]
     IN  CASE cmd.op = "CmdWriteBufferMarkerAMD" ->
                /\ cmd.stage = "BOTTOM_OF_PIPE" => gpu_running = {}
                /\ markerBuffer' = WriteMarker(markerBuffer, cmd.dstOffset, cmd.marker)
                /\ UNCHANGED gpu_running
           [] cmd.op = "vkCmdDispatch" ->
                /\ gpu_running' = gpu_running \cup {gpu_next}
                /\ UNCHANGED markerBuffer
           [] OTHER -> UNCHANGED <<markerBuffer, gpu_running>>
  /\ gpu_next' = gpu_next + 1
  /\ UNCHANGED <<markerEntries, mk_pc, mk_i, commandBuffer>>
  /\ UNCHANGED otherThanMk

\* A dispatch completes; the shader works on bufferIn and bufferOut, which
\* live in another allocation.
GpuDispatchCompletes ==
  /\ \E d \in gpu_running : gpu_running' = gpu_running \ {d}
  /\ UNCHANGED <<markerEntries, markerBuffer, mk_pc, mk_i, commandBuffer, gpu_next>>
  /\ UNCHANGED otherThanMk

\* vkQueueWaitIdle(device->queue): success once the queue has drained.
MkWaitIdle ==
  /\ mk_pc = "idle"
  /\ \E res \in HostCallResults :
       IF res = VK_SUCCESS
         THEN /\ gpu_next > Len(commandBuffer) /\ gpu_running = {}
              /\ mk_pc' = "done"
         ELSE mk_pc' = "failed"
  /\ UNCHANGED <<markerEntries, markerBuffer, mk_i, commandBuffer, gpu_next, gpu_running>>
  /\ UNCHANGED otherThanMk

InitMarker ==
  /\ markerEntries \in PrintedMarkers..MaxMarkerEntries
  /\ markerBuffer = << >>
  /\ mk_pc = "alloc"
  /\ mk_i = 0
  /\ commandBuffer = << >>
  /\ gpu_next = 0
  /\ gpu_running = {}

IdleMarker ==
  /\ markerEntries = PrintedMarkers
  /\ markerBuffer = << >>
  /\ mk_pc = "alloc"
  /\ mk_i = 0
  /\ commandBuffer = << >>
  /\ gpu_next = 0
  /\ gpu_running = {}

----------------------------------------------------------------------------
(* common.cc: command-line flags.                                          *)

\* A string is a sequence of symbols; these are the symbols arguments are
\* made of.  "=" is the character InitFlags looks for.
Symbols == {"--queue", "--secondary", "=", "x"}

Strings == UNION {[1..n -> Symbols] : n \in 0..MaxArgLen}

\* CommonFlags(): the three flags every program defines.
CommonFlags == {<<"--queue">>, <<"--secondary">>, <<"--debug_utils">>}

\* std::string::npos
npos == 0 - 1

\* k.find('='): the position from 0 of the first '=', or npos.
RECURSIVE FindFrom_Eq(_, _)
FindFrom_Eq(k, i) ==
  IF i >= Len(k) THEN npos
  ELSE IF k[i + 1] = "=" THEN i
  ELSE FindFrom_Eq(k, i + 1)

Find_Eq(k) == FindFrom_Eq(k, 0)

\* k.substr(pos, n) and k.substr(pos)
Substr(k, pos, n) == SubSeq(k, pos + 1, pos + n)
SubstrFrom(k, pos) == SubSeq(k, pos + 1, Len(k))

\* Mutation: the whole argument taken as the flag's name.
FlagName_WholeArgument(arg) == arg

\* The k and v InitFlags derives from one argument.
FlagName(arg) ==
  LET eqidx == Find_Eq(arg)
  IN  IF eqidx # npos THEN Substr(arg, 0, eqidx) ELSE arg

FlagValue(arg) ==
  LET eqidx == Find_Eq(arg)
  IN  IF eqidx # npos THEN SubstrFrom(arg, eqidx + 1) ELSE << >>

\* PrintHelpAndExit(flag): the "Invalid flag" line unless the flag asks
\* for help, then every defined flag, then exit(EXIT_FAILURE).
PrintHelpAndExit(flag) ==
  /\ fl_stderr' = << flag # <<"--help">> /\ flag # <<"-h">>, names >>
  /\ fl_pc' = "exit_failure"

\* One iteration of the loop of InitFlags.
FlArgument ==
  /\ fl_pc = "running"
  /\ fl_i <= Len(argv)
  /\ LET k == FlagName(argv[fl_i])
         v == FlagValue(argv[fl_i])
     IN  IF k \notin names
           THEN /\ PrintHelpAndExit(k)
                /\ UNCHANGED <<values, fl_i>>
           ELSE /\ values' = [n \in DOMAIN values \cup {k} |->
                                IF n = k THEN v ELSE values[n]]
                /\ fl_i' = fl_i + 1
                /\ UNCHANGED <<fl_pc, fl_stderr>>
  /\ UNCHANGED <<argv, names>>
  /\ UNCHANGED otherThanFl

\* The loop ends and InitFlags returns.
FlReturn ==
  /\ fl_pc = "running"
  /\ fl_i > Len(argv)
  /\ fl_pc' = "returned"
  /\ UNCHANGED <<argv, names, values, fl_i, fl_stderr>>
  /\ UNCHANGED otherThanFl

\* GetFlag(key): << >> for nullptr, <<value>> otherwise.
GetFlag(key) ==
  IF key \notin DOMAIN values THEN << >> ELSE <<values[key]>>

\* InitFlags has called CommonFlags() and is about to read argv[1].
InitInitFlags ==
  /\ argv \in UNION {[1..n -> Strings] : n \in 0..MaxArgs}
  /\ names = CommonFlags
  /\ values = << >>
  /\ fl_i = 1
  /\ fl_pc = "running"
  /\ fl_stderr = << >>

IdleFlags ==
  /\ argv = << >>
  /\ names = CommonFlags
  /\ values = << >>
  /\ fl_i = 1
  /\ fl_pc = "running"
  /\ fl_stderr = << >>

----------------------------------------------------------------------------
(* common.cc: the queue-creation descriptors of InitVulkanDevice.          *)

\* Mutation: the queue index read after queueCount was incremented.
HandleRequest_IndexAfterIncrement(infos, indices, pairs, queue_family_index) ==
  LET known == queue_family_index \in DOMAIN indices
      infos1 == IF known THEN infos
                ELSE Append(infos, [queueFamilyIndex |-> queue_family_index,
                                    queueCount |-> 0])
      indices1 == IF known THEN indices
                  ELSE [f \in DOMAIN indices \cup {queue_family_index} |->
                          IF f = queue_family_index THEN Len(infos) ELSE indices[f]]
      create_info_index == indices1[queue_family_index]
      infos2 == [infos1 EXCEPT ![create_info_index + 1].queueCount = @ + 1]
      next_queue_index == infos2[create_info_index + 1].queueCount
  IN  [infos |-> infos2, indices |-> indices1,
       pairs |-> Append(pairs, <<queue_family_index, next_queue_index>>)]

\* The body of the loop for one request that resolved to
\* queue_family_index: a descriptor with queueCount 0 for a family not seen
\* before, then the queue index read, the count incremented and the pair
\* recorded.
HandleRequest(infos, indices, pairs, queue_family_index) ==
  LET known == queue_family_index \in DOMAIN indices
      infos1 == IF known THEN infos
                ELSE Append(infos, [queueFamilyIndex |-> queue_family_index,
                                    queueCount |-> 0])
      indices1 == IF known THEN indices
                  ELSE [f \in DOMAIN indices \cup {queue_family_index} |->
                          IF f = queue_family_index THEN Len(infos) ELSE indices[f]]
      create_info_index == indices1[queue_family_index]
      next_queue_index == infos1[create_info_index + 1].queueCount
      infos2 == [infos1 EXCEPT ![create_info_index + 1].queueCount = @ + 1]
  IN  [infos |-> infos2, indices |-> indices1,
       pairs |-> Append(pairs, <<queue_family_index, next_queue_index>>)]

\* for (auto queue_type : *queues) { ... }: one iteration.
QcRequest ==
  /\ qc_pc = "loop"
  /\ qc_pos < Len(queues)
  /\ LET queue_family_index == SelectQueue(physicalDevice, queues[qc_pos + 1])
         r == HandleRequest(queue_create_infos, create_info_indices,
                            queue_indices, queue_family_index)
     IN  /\ queue_create_infos' = r.infos
         /\ create_info_indices' = r.indices
         /\ queue_indices' = r.pairs
  /\ qc_pos' = qc_pos + 1
  /\ UNCHANGED <<physicalDevice, queues, queueCreateInfoCount, qc_pc>>
  /\ UNCHANGED otherThanQc

\* deviceInfo.queueCreateInfoCount = (uint32_t)queue_create_infos.size();
QcDeviceInfo ==
  /\ qc_pc = "loop"
  /\ qc_pos = Len(queues)
  /\ queueCreateInfoCount' = Len(queue_create_infos)
  /\ qc_pc' = "done"
  /\ UNCHANGED <<physicalDevice, queues, qc_pos, queue_create_infos,
                 create_info_indices, queue_indices>>
  /\ UNCHANGED otherThanQc

InitQueueCreate ==
  /\ physicalDevice \in FamilyLists(MaxDeviceFamilies)
  /\ queues \in UNION {[1..n -> QueueType] : n \in 0..MaxQueues}
  /\ qc_pos = 0
  /\ queue_create_infos = << >>
  /\ create_info_indices = << >>
  /\ queue_indices = << >>
  /\ queueCreateInfoCount = 0 - 1
  /\ qc_pc = "loop"

IdleQueueCreate ==
  /\ physicalDevice = << >>
  /\ queues = << >>
  /\ qc_pos = 0
  /\ queue_create_infos = << >>
  /\ create_info_indices = << >>
  /\ queue_indices = << >>
  /\ queueCreateInfoCount = 0 - 1
  /\ qc_pc = "loop"

----------------------------------------------------------------------------
(* common.cc: the queues and command pools of InitVulkanDevice.            *)

\* The queue flags of a family no class matches, of a transfer-only
\* family, of a compute family and of a graphics family: one family for
\* each outcome of SelectQueue.
ClassFlags ==
  { 0, VK_QUEUE_TRANSFER_BIT, VK_QUEUE_COMPUTE_BIT + VK_QUEUE_TRANSFER_BIT,
    VK_QUEUE_GRAPHICS_BIT + VK_QUEUE_COMPUTE_BIT + VK_QUEUE_TRANSFER_BIT }

\* A command pool is <<the family it was created for>>; << >> is what the
\* VkCommandPool local holds when vkCreateCommandPool failed and the build
\* carries on.
GarbagePool == << >>

\* Mutation: a pool created only for a family that has none yet.
PushCommandPool_OncePerFamily(pools, pool) ==
  IF \E k \in DOMAIN pools : pools[k] = pool THEN pools ELSE Append(pools, pool)

\* device.commandPools.push_back(pool);
PushCommandPool(pools, pool) == Append(pools, pool)

\* if (queue_indices.empty()) { ...push_back(device); return vk_device; }
CpReturnEarly ==
  /\ qc_pc = "done" /\ cp_pc = "loop"
  /\ queue_indices = << >>
  /\ cp_pc' = "returned_early"
  /\ UNCHANGED <<device_queues, commandPools, cp_pos>>
  /\ UNCHANGED otherThanCp

\* One iteration of for (auto queue_index : queue_indices): the queue is
\* fetched and a command pool is created for its family.  A failing
\* vkCreateCommandPool aborts a debug build; a release build pushes the
\* unwritten handle.
CpQueueAndPool ==
  /\ qc_pc = "done" /\ cp_pc = "loop"
  /\ cp_pos < Len(queue_indices)
  /\ LET pair == queue_indices[cp_pos + 1]
     IN  \E res \in HostCallResults, carries_on \in BOOLEAN :
           IF res # VK_SUCCESS /\ ~carries_on
             THEN /\ cp_pc' = "aborted"
                  /\ device_queues' = Append(device_queues, pair)
                  /\ UNCHANGED <<commandPools, cp_pos>>
             ELSE /\ device_queues' = Append(device_queues, pair)
                  /\ commandPools' =
                       PushCommandPool(commandPools,
                         IF res = VK_SUCCESS
                           THEN <<pair[1]>>
                           ELSE GarbagePool)
                  /\ cp_pos' = cp_pos + 1
                  /\ cp_pc' = IF cp_pos' = Len(queue_indices)
                                THEN "defaults" ELSE "loop"
  /\ UNCHANGED otherThanCp

\* device.queue = device.queues.front();
\* device.commandPool = device.commandPools.front();
CpDefaults ==
  /\ cp_pc = "defaults"
  /\ cp_pc' = "done"
  /\ UNCHANGED <<device_queues, commandPools, cp_pos>>
  /\ UNCHANGED otherThanCp

InitCommandPools ==
  /\ device_queues = << >>
  /\ commandPools = << >>
  /\ cp_pos = 0
  /\ cp_pc = "loop"

IdleCommandPools == InitCommandPools

----------------------------------------------------------------------------
(* The callers of FindMemoryType: AllocateInputOutputBuffers and the       *)
(* marker buffer of buffer_marker_test.cc.                                 *)

\* VK_MEMORY_PROPERTY_HOST_VISIBLE_BIT | VK_MEMORY_PROPERTY_HOST_COHERENT_BIT
\* in the two property bits of the model.
bufferMemoryType == 3

\* allocateInfo.memoryTypeIndex = FindMemoryType(...);
\* VK_CHECK_RESULT(vkAllocateMemory(vk_device, &allocateInfo, ...));
\* Nothing stands between the two.  With an index that names no memory
\* type the driver's behaviour is undefined: any result.
AlAllocateMemory ==
  /\ fm_pc = "returned" /\ al_pc = "find"
  /\ allocateInfo' = <<memoryTypeIndex>>
  /\ \E res \in HostCallResults :
       al_pc' = IF res = VK_SUCCESS THEN "allocated" ELSE "failed"
  /\ UNCHANGED otherThanAl

InitAllocateMemory ==
  /\ allocateInfo = << >>
  /\ al_pc = "find"

IdleAllocateMemory == InitAllocateMemory

----------------------------------------------------------------------------
(* common.cc: CreateAndRecordCommandBuffers.                               *)

\* The handles the two allocations yield; 0 stands for the indeterminate
\* value of a handle no allocation wrote.
PrimaryHandle == 1
SecondaryHandle == 2
IndeterminateHandle == 0

CallbackCommands == {"vkCmdDispatch", "vkCmdSetEvent"}

\* Mutation: the secondary out-parameter used whatever the flag says.
UseSecondary_IgnoreFlag(flag, supplied) == supplied

\* if (GetFlag("--secondary") == nullptr) secondary = nullptr;
\* ... if (secondary != nullptr): the parameter after the first statement.
UseSecondary(flag, supplied) == IF flag = << >> THEN FALSE ELSE supplied

secondary == UseSecondary(GetFlag(<<"--secondary">>), secondary_arg)

\* VK_CHECK_RESULT around a call with result res: TRUE when the function
\* goes on to the next statement, noting a failure it ran over.
CrChecked(res, carries_on, next) ==
  IF res # VK_SUCCESS /\ ~carries_on
    THEN cr_pc' = "aborted" /\ cr_failed' = cr_failed
    ELSE cr_pc' = next /\ cr_failed' = (cr_failed \/ res # VK_SUCCESS)

Deref(out) == IF out = << >> THEN IndeterminateHandle ELSE out[1]

\* AllocateDefaultCommandBuffer(device, primary, ..._PRIMARY, pool);
\* VkCommandBuffer cb = *primary;
CrAllocatePrimary ==
  /\ cr_pc = "allocate_primary"
  /\ \E res \in HostCallResults, carries_on \in BOOLEAN :
       /\ CrChecked(res, carries_on, IF secondary THEN "allocate_secondary" ELSE "begin")
       /\ IF res = VK_SUCCESS
            THEN /\ primary_out' = <<PrimaryHandle>>
                 /\ allocated' = [h \in {PrimaryHandle} |-> "PRIMARY"]
            ELSE UNCHANGED <<primary_out, allocated>>
       /\ cr_cb' = Deref(primary_out')
  /\ UNCHANGED <<secondary_arg, callback, secondary_out, recorded, cr_calls>>
  /\ UNCHANGED otherThanCr

\* AllocateDefaultCommandBuffer(device, secondary, ..._SECONDARY, pool);
\* cb = *secondary;
CrAllocateSecondary ==
  /\ cr_pc = "allocate_secondary"
  /\ \E res \in HostCallResults, carries_on \in BOOLEAN :
       /\ CrChecked(res, carries_on, "begin")
       /\ IF res = VK_SUCCESS
            THEN /\ secondary_out' = <<SecondaryHandle>>
                 /\ allocated' = [h \in DOMAIN allocated \cup {SecondaryHandle} |->
                                    IF h = SecondaryHandle THEN "SECONDARY"
                                    ELSE allocated[h]]
            ELSE UNCHANGED <<secondary_out, allocated>>
       /\ cr_cb' = Deref(secondary_out')
  /\ UNCHANGED <<secondary_arg, callback, primary_out, recorded, cr_calls>>
  /\ UNCHANGED otherThanCr

\* vkBeginCommandBuffer(cb, &begin_info)
CrBegin ==
  /\ cr_pc = "begin"
  /\ \E res \in HostCallResults, carries_on \in BOOLEAN :
       CrChecked(res, carries_on, "callback")
  /\ UNCHANGED <<secondary_arg, callback, primary_out, secondary_out, allocated,
                 recorded, cr_cb, cr_calls>>
  /\ UNCHANGED otherThanCr

\* f(cb)
CrCallback ==
  /\ cr_pc = "callback"
  /\ recorded' = [recorded EXCEPT ![cr_cb] = @ \o callback]
  /\ cr_calls' = cr_calls + 1
  /\ cr_pc' = "end"
  /\ UNCHANGED <<secondary_arg, callback, primary_out, secondary_out, allocated,
                 cr_cb, cr_failed>>
  /\ UNCHANGED otherThanCr

\* vkEndCommandBuffer(cb); without a secondary, return VK_SUCCESS.
CrEnd ==
  /\ cr_pc = "end"
  /\ \E res \in HostCallResults, carries_on \in BOOLEAN :
       CrChecked(res, carries_on, IF secondary THEN "begin_primary" ELSE "returned")
  /\ UNCHANGED <<secondary_arg, callback, primary_out, secondary_out, allocated,
                 recorded, cr_cb, cr_calls>>
  /\ UNCHANGED otherThanCr

\* vkBeginCommandBuffer(*primary, &begin_info)
CrBeginPrimary ==
  /\ cr_pc = "begin_primary"
  /\ \E res \in HostCallResults, carries_on \in BOOLEAN :
       CrChecked(res, carries_on, "execute")
  /\ UNCHANGED <<secondary_arg, callback, primary_out, secondary_out, allocated,
                 recorded, cr_cb, cr_calls>>
  /\ UNCHANGED otherThanCr

\* vkCmdExecuteCommands(*primary, 1, &cb)
CrExecuteCommands ==
  /\ cr_pc = "execute"
  /\ recorded' = [recorded EXCEPT ![Deref(primary_out)] =
                    Append(@, <<"vkCmdExecuteCommands", cr_cb>>)]
  /\ cr_pc' = "end_primary"
  /\ UNCHANGED <<secondary_arg, callback, primary_out, secondary_out, allocated,
                 cr_cb, cr_calls, cr_failed>>
  /\ UNCHANGED otherThanCr

\* vkEndCommandBuffer(*primary); return VK_SUCCESS;
CrEndPrimary ==
  /\ cr_pc = "end_primary"
  /\ \E res \in HostCallResults, carries_on \in BOOLEAN :
       CrChecked(res, carries_on, "returned")
  /\ UNCHANGED <<secondary_arg, callback, primary_out, secondary_out, allocated,
                 recorded, cr_cb, cr_calls>>
  /\ UNCHANGED otherThanCr

InitRecord ==
  /\ secondary_arg \in BOOLEAN
  /\ callback \in UNION {[1..n -> CallbackCommands] : n \in 0..MaxCallbackCommands}
  /\ primary_out = << >>
  /\ secondary_out = << >>
  /\ allocated = << >>
  /\ recorded = [h \in {IndeterminateHandle, PrimaryHandle, SecondaryHandle} |-> << >>]
  /\ cr_cb = IndeterminateHandle
  /\ cr_calls = 0
  /\ cr_failed = FALSE
  /\ cr_pc = "allocate_primary"

IdleRecord ==
  /\ secondary_arg = FALSE
  /\ callback = << >>
  /\ primary_out = << >>
  /\ secondary_out = << >>
  /\ allocated = << >>
  /\ recorded = [h \in {IndeterminateHandle, PrimaryHandle, SecondaryHandle} |-> << >>]
  /\ cr_cb = IndeterminateHandle
  /\ cr_calls = 0
  /\ cr_failed = FALSE
  /\ cr_pc = "allocate_primary"

\* InitFlags has returned from a command line with or without --secondary.
InitFlagsReturned ==
  /\ argv \in {<< >>, << <<"--secondary">> >>, << <<"--queue", "=">> >>}
  /\ names = CommonFlags
  /\ values = [k \in {FlagName(argv[i]) : i \in 1..Len(argv)} |-> << >>]
  /\ fl_i = Len(argv) + 1
  /\ fl_pc = "returned"
  /\ fl_stderr = << >>

----------------------------------------------------------------------------
(* common.cc: LoadShader, and what its callers do with the result.         *)

\* The checked calls of InitVulkanDevice after LoadShader, in order.
ShaderPipelineCalls ==
  << "vkCreateDescriptorPool", "vkCreateDescriptorSetLayout",
     "vkCreatePipelineLayout", "vkCreateComputePipelines" >>

\* What a caller does once LoadShader has returned result: both callers
\* drop the value.  InitVulkanDevice goes on to the descriptor and pipeline
\* calls, main of load_shader.cc returns 0.
AfterLoadShader(caller, result) ==
  IF caller = "InitVulkanDevice" THEN "pipeline" ELSE "exit_0"

\* LoadShader(device, filename, shader), CreateShader included: false with
\* the module unwritten when the file cannot be opened or measured;
\* otherwise vkCreateShaderModule under VK_CHECK_RESULT and true.
LsLoadShader ==
  /\ ls_pc = "load"
  /\ IF ~file_opens \/ ~length_known
       THEN /\ load_result' = "false"
            /\ ls_pc' = AfterLoadShader(ls_caller, "false")
            /\ UNCHANGED <<shader, ls_failed>>
       ELSE \E res \in HostCallResults, carries_on \in BOOLEAN :
              IF res # VK_SUCCESS /\ ~carries_on
                THEN /\ ls_pc' = "aborted"
                     /\ UNCHANGED <<load_result, shader, ls_failed>>
                ELSE /\ ls_failed' = IF res = VK_SUCCESS THEN ls_failed
                                     ELSE ls_failed \cup {"vkCreateShaderModule"}
                     /\ shader' = IF res = VK_SUCCESS THEN <<"module">> ELSE shader
                     /\ load_result' = "true"
                     /\ ls_pc' = AfterLoadShader(ls_caller, "true")
  /\ UNCHANGED <<ls_caller, file_opens, length_known, pipeline_module, ls_step>>
  /\ UNCHANGED otherThanLs

\* One checked call of InitVulkanDevice after LoadShader;
\* pipelineStageCreateInfo.module = device.computeShaderModule, whatever
\* that field holds.
LsPipelineCall ==
  /\ ls_pc = "pipeline"
  /\ \E res \in HostCallResults, carries_on \in BOOLEAN :
       IF res # VK_SUCCESS /\ ~carries_on
         THEN /\ ls_pc' = "aborted"
              /\ UNCHANGED <<pipeline_module, ls_step, ls_failed>>
         ELSE /\ ls_failed' = IF res = VK_SUCCESS THEN ls_failed
                              ELSE ls_failed \cup {ShaderPipelineCalls[ls_step]}
              /\ pipeline_module' =
                   IF ShaderPipelineCalls[ls_step] = "vkCreateComputePipelines"
                        /\ res = VK_SUCCESS
                     THEN <<IF shader = << >> THEN "indeterminate" ELSE shader[1]>>
                     ELSE pipeline_module
              /\ ls_step' = ls_step + 1
              /\ ls_pc' = IF ls_step = Len(ShaderPipelineCalls)
                            THEN "registered" ELSE "pipeline"
  /\ UNCHANGED <<ls_caller, file_opens, length_known, shader, load_result>>
  /\ UNCHANGED otherThanLs

InitLoadShader ==
  /\ ls_caller \in {"InitVulkanDevice", "load_shader"}
  /\ file_opens \in BOOLEAN
  /\ length_known \in BOOLEAN
  /\ shader = << >>
  /\ load_result = "none"
  /\ pipeline_module = << >>
  /\ ls_step = 1
  /\ ls_failed = {}
  /\ ls_pc = "load"

IdleLoadShader ==
  /\ ls_caller = "InitVulkanDevice"
  /\ file_opens = TRUE
  /\ length_known = TRUE
  /\ shader = << >>
  /\ load_result = "none"
  /\ pipeline_module = << >>
  /\ ls_step = 1
  /\ ls_failed = {}
  /\ ls_pc = "load"

----------------------------------------------------------------------------
(* The main functions: what each program calls, in order.                  *)

Contexts == {1, 2, 3}

Op(o, c) == [op |-> o, ctx |-> c]

\* InitVulkan(&context, ...)
InitVulkanOps(c) ==
  << Op("InitVulkanInstance", c), Op("InitVulkanDevice", c),
     Op("SetupWatchdogTimer", c) >>

Submits(c, n) == [k \in 1..n |-> Op("vkQueueSubmit", c)]

\* TestVulkan(context): GetSingleDevice, then its submissions.
TestVulkanOps(c, work) == <<Op("GetSingleDevice", c)>> \o work

\* RunWithCrashCheck(ctx, f): GetSingleDevice, f, the sentinel's submit.
RunWithCrashCheckOps(c, work) ==
  <<Op("GetSingleDevice", c)>> \o work \o <<Op("vkQueueSubmit", c)>>

\* The programs whose main is InitVulkan and RunWithCrashCheck(TestVulkan)
\* on one context, with the queue calls of their TestVulkan.
SingleContextWork ==
  [ crash_copy |-> Submits(1, 1),
    crash_shader_freed_memory |-> Submits(1, 1),
    hang_binary_timeline_semaphore_gpu |-> Submits(1, 5),
    hang_binary_timeline_semaphore_gpu_bind_sparse |->
      << Op("vkQueueSubmit", 1), Op("vkQueueBindSparse", 1),
         Op("vkQueueBindSparse", 1), Op("vkQueueSubmit", 1) >>,
    hang_host_event |-> Submits(1, 2),
    hang_host_event_reset |-> Submits(1, 2),
    hang_infinite_loop |-> Submits(1, 1),
    hang_timeline_semaphore_gpu |-> Submits(1, 2),
    hang_timeline_semaphore_host |-> Submits(1, 1),
    invalid_local_array_index |-> Submits(1, 1) ]

Programs ==
  DOMAIN SingleContextWork \cup
    { "buffer_marker_test", "hang_host_event_multi_context",
      "hang_host_event_multi_device", "hang_infinite_loop_multi_queue",
      "load_shader" }

LoaderTokens == {"-i", "-d", "-v", "1.0", "x"}

\* The option loop of load_shader.cc: for (int i = 1; i < argc - 1; ++i),
\* an option counting only when a value stands between it and the file
\* name (i < argc - 2).  argc is Len(args) + 1.
RECURSIVE LoaderOptionOps(_, _)
LoaderOptionOps(args, i) ==
  IF i >= Len(args) THEN << >>
  ELSE IF i < Len(args) - 1 /\ args[i] = "-i" THEN LoaderOptionOps(args, i + 2)
  ELSE IF i < Len(args) - 1 /\ args[i] = "-d"
    THEN <<Op("GetSingleDevice", 1)>> \o LoaderOptionOps(args, i + 2)
  ELSE IF i < Len(args) - 1 /\ args[i] = "-v"
    THEN IF args[i + 1] = "1.0" THEN LoaderOptionOps(args, i + 2)
         ELSE <<Op("exit(-1)", 1)>>
  ELSE LoaderOptionOps(args, i + 1)

Script(p, args) ==
  CASE p \in DOMAIN SingleContextWork ->
         InitVulkanOps(1)
           \o RunWithCrashCheckOps(1, TestVulkanOps(1, SingleContextWork[p]))
    [] p = "buffer_marker_test" ->
         InitVulkanOps(1) \o TestVulkanOps(1, Submits(1, 1))
    [] p = "hang_infinite_loop_multi_queue" ->
         << Op("InitVulkanInstance", 1), Op("InitVulkanDevice", 1) >>
           \o RunWithCrashCheckOps(1, TestVulkanOps(1, Submits(1, 3)))
    [] p = "hang_host_event_multi_context" ->
         InitVulkanOps(1)
           \o RunWithCrashCheckOps(1, TestVulkanOps(1, << >>))
           \o InitVulkanOps(2)
           \o RunWithCrashCheckOps(2, TestVulkanOps(2, << >>))
           \o <<Op("CleanupVulkan", 2)>>
           \o InitVulkanOps(3)
           \o RunWithCrashCheckOps(3, TestVulkanOps(3, Submits(3, 2)))
    [] p = "hang_host_event_multi_device" ->
         << Op("InitVulkanInstance", 1), Op("InitVulkanDevice", 1),
            Op("InitVulkanDevice", 1), Op("InitVulkanDevice", 1),
            Op("SetupWatchdogTimer", 1), Op("DeleteVulkanDevice", 1) >>
           \o Submits(1, 2)
    [] p = "load_shader" ->
         IF args = << >> THEN <<Op("exit(-1)", 1)>>
         ELSE LoaderOptionOps(args, 1) \o InitVulkanOps(1)
                \o << Op("GetSingleDevice", 1), Op("LoadShader", 1) >>

PgAt(o) ==
  /\ pg_pc = "run"
  /\ pg_pos <= Len(Script(program, pg_argv))
  /\ Script(program, pg_argv)[pg_pos].op = o

PgCtx == Script(program, pg_argv)[pg_pos].ctx

PgInitVulkanInstance ==
  /\ PgAt("InitVulkanInstance")
  /\ \E res \in {VK_SUCCESS, VK_ERROR_INCOMPATIBLE_DRIVER} :
       IF res = VK_SUCCESS
         THEN pg_pos' = pg_pos + 1 /\ UNCHANGED pg_pc
         ELSE pg_pc' = "exit_1" /\ UNCHANGED pg_pos
  /\ UNCHANGED <<program, pg_argv, registered, gsd_sizes, pg_submitted>>
  /\ UNCHANGED otherThanPg

\* InitVulkanDevice registers a record, unless a failing call aborted it.
PgInitVulkanDevice ==
  /\ PgAt("InitVulkanDevice")
  /\ \/ /\ registered' = [registered EXCEPT ![PgCtx] = @ + 1]
        /\ pg_pos' = pg_pos + 1
        /\ UNCHANGED pg_pc
     \/ /\ pg_pc' = "aborted"
        /\ UNCHANGED <<registered, pg_pos>>
  /\ UNCHANGED <<program, pg_argv, gsd_sizes, pg_submitted>>
  /\ UNCHANGED otherThanPg

PgSetupWatchdogTimer ==
  /\ PgAt("SetupWatchdogTimer")
  /\ SetupWatchdogTimer
  /\ pg_pos' = pg_pos + 1
  /\ UNCHANGED <<program, pg_argv, registered, gsd_sizes, pg_submitted, pg_pc>>
  /\ UNCHANGED <<watchdog_mutex, test_timedout, setup_calls, mpc, status, expired,
                 hpc, notified, notifiedInTime, proc_status>>
  /\ UNCHANGED <<crashVars, devVars, mdVars, afterPgVars>>

\* assert(devices.size() == 1); return &devices[0];
PgGetSingleDevice ==
  /\ PgAt("GetSingleDevice")
  /\ gsd_sizes' = gsd_sizes \cup {registered[PgCtx]}
  /\ IF registered[PgCtx] = 1
       THEN pg_pos' = pg_pos + 1 /\ UNCHANGED pg_pc
       ELSE \/ pg_pc' = "aborted" /\ UNCHANGED pg_pos
            \/ pg_pos' = pg_pos + 1 /\ UNCHANGED pg_pc
  /\ UNCHANGED <<program, pg_argv, registered, pg_submitted>>
  /\ UNCHANGED otherThanPg

\* vkQueueSubmit or vkQueueBindSparse; a failure ends the program.
PgQueueSubmit ==
  /\ PgAt("vkQueueSubmit") \/ PgAt("vkQueueBindSparse")
  /\ pg_submitted' = pg_submitted + 1
  /\ \E res \in HostCallResults :
       IF res = VK_SUCCESS
         THEN pg_pos' = pg_pos + 1 /\ UNCHANGED pg_pc
         ELSE pg_pc' = "exit_0" /\ UNCHANGED pg_pos
  /\ UNCHANGED <<program, pg_argv, registered, gsd_sizes>>
  /\ UNCHANGED otherThanPg

PgDeleteVulkanDevice ==
  /\ PgAt("DeleteVulkanDevice")
  /\ registered' = [registered EXCEPT ![PgCtx] = @ - 1]
  /\ pg_pos' = pg_pos + 1
  /\ UNCHANGED <<program, pg_argv, gsd_sizes, pg_submitted, pg_pc>>
  /\ UNCHANGED otherThanPg

PgCleanupVulkan ==
  /\ PgAt("CleanupVulkan")
  /\ registered' = [registered EXCEPT ![PgCtx] = 0]
  /\ pg_pos' = pg_pos + 1
  /\ UNCHANGED <<program, pg_argv, gsd_sizes, pg_submitted, pg_pc>>
  /\ UNCHANGED otherThanPg

PgLoadShader ==
  /\ PgAt("LoadShader")
  /\ pg_pos' = pg_pos + 1
  /\ UNCHANGED <<program, pg_argv, registered, gsd_sizes, pg_submitted, pg_pc>>
  /\ UNCHANGED otherThanPg

\* PrintUsage(); exit(-1); and the unknown Vulkan version.
PgExitUsage ==
  /\ PgAt("exit(-1)")
  /\ pg_pc' = "exit_-1"
  /\ UNCHANGED <<program, pg_argv, pg_pos, registered, gsd_sizes, pg_submitted>>
  /\ UNCHANGED otherThanPg

\* return 0;
PgReturn ==
  /\ pg_pc = "run"
  /\ pg_pos > Len(Script(program, pg_argv))
  /\ pg_pc' = "exit_0"
  /\ UNCHANGED <<program, pg_argv, pg_pos, registered, gsd_sizes, pg_submitted>>
  /\ UNCHANGED otherThanPg

InitPrograms ==
  /\ program \in Programs
  /\ pg_argv \in IF program = "load_shader"
                   THEN UNION {[1..n -> LoaderTokens] : n \in 0..MaxLoaderArgs}
                   ELSE {<< >>}
  /\ pg_pos = 1
  /\ registered = [c \in Contexts |-> 0]
  /\ gsd_sizes = {}
  /\ pg_submitted = 0
  /\ pg_pc = "run"

IdlePrograms ==
  /\ program = "hang_host_event"
  /\ pg_argv = << >>
  /\ pg_pos = 1
  /\ registered = [c \in Contexts |-> 0]
  /\ gsd_sizes = {}
  /\ pg_submitted = 0
  /\ pg_pc = "run"

----------------------------------------------------------------------------
(* hang_binary_timeline_semaphore_gpu_bind_sparse.cc: ten binary and ten   *)
(* timeline semaphores through two submits and two sparse binds.           *)

kNumBinarySemaphores == 10
kNumTimelineSemaphores == 10

\* CreateTimelineSemaphores(device, ..., kNumTimelineSemaphores, 10)
TimelineInitialValue == 10

Binary(i) == [type |-> "binary", index |-> i]
Timeline(i) == [type |-> "timeline", index |-> i]

\* A pointer to a vector is <<vector>>, a null pointer << >>.
CreateTimelineSemaphoreSubmitInfo(wait_values, signal_values) ==
  LET a == [ waitSemaphoreValueCount |-> 0, pWaitSemaphoreValues |-> << >>,
             signalSemaphoreValueCount |-> 0, pSignalSemaphoreValues |-> << >> ]
      b == IF wait_values # << >>
             THEN [a EXCEPT !.waitSemaphoreValueCount = Len(wait_values[1]),
                            !.pWaitSemaphoreValues = wait_values]
             ELSE a
  IN  IF signal_values # << >>
        THEN [b EXCEPT !.signalSemaphoreValueCount = Len(signal_values[1]),
                       !.pSignalSemaphoreValues = signal_values]
        ELSE b

CreateBindSparseInfo(wait, signal, next) ==
  LET a == [ waitSemaphoreCount |-> 0, pWaitSemaphores |-> << >>,
             signalSemaphoreCount |-> 0, pSignalSemaphores |-> << >>,
             pNext |-> << >> ]
      b == IF wait # << >>
             THEN [a EXCEPT !.waitSemaphoreCount = Len(wait[1]),
                            !.pWaitSemaphores = wait]
             ELSE a
      c == IF signal # << >>
             THEN [b EXCEPT !.signalSemaphoreCount = Len(signal[1]),
                            !.pSignalSemaphores = signal]
             ELSE b
  IN  [c EXCEPT !.pNext = next]

\* VkSubmitInfo submitInfo: signals some of the semaphores.
submitInfo ==
  CreateSubmitInfo("commandBuffer", << >>, << >>,
    << << Binary(0), Binary(4), Timeline(0), Timeline(4), Timeline(8) >> >>,
    CreateTimelineSemaphoreSubmitInfo(<< >>, << <<1, 1, 11, 12, 13>> >>))

bindSparseInfo1 ==
  CreateBindSparseInfo(
    << << Binary(0), Timeline(8) >> >>,
    << << Binary(2), Binary(6), Timeline(1), Timeline(5), Timeline(9) >> >>,
    CreateTimelineSemaphoreSubmitInfo(<< <<1, 13>> >>,
                                      << <<1, 1, 14, 15, 16>> >>))

bindSparseInfo2 ==
  CreateBindSparseInfo(
    << << Binary(4), Timeline(8) >> >>,
    << << Binary(2), Binary(7), Timeline(0), Timeline(1), Timeline(2) >> >>,
    CreateTimelineSemaphoreSubmitInfo(<< <<1, 13>> >>,
                                      << <<1, 1, 17, 18, 19>> >>))

\* allSemaphores: the ten binary, then the ten timeline semaphores, each
\* with the wait value 100.
allSemaphores ==
  [k \in 1..(kNumBinarySemaphores + kNumTimelineSemaphores) |->
     IF k <= kNumBinarySemaphores THEN Binary(k - 1)
     ELSE Timeline(k - 1 - kNumBinarySemaphores)]

waitAllTimelineValues == [k \in 1..20 |-> 100]

submitInfo2 ==
  CreateSubmitInfo("commandBuffer", <<allSemaphores>>,
    [k \in 1..20 |-> "ALL_GRAPHICS"], << >>,
    CreateTimelineSemaphoreSubmitInfo(<<waitAllTimelineValues>>, << >>))

Descriptor(name) ==
  CASE name = "submitInfo" -> submitInfo
    [] name = "bindSparseInfo1" -> bindSparseInfo1
    [] name = "bindSparseInfo2" -> bindSparseInfo2
    [] name = "submitInfo2" -> submitInfo2

\* The queue and fence calls of TestVulkan, in order.
BindSparseCalls ==
  << "submitInfo", "vkWaitForFences", "vkResetFences",
     "bindSparseInfo1", "vkWaitForFences", "vkResetFences",
     "bindSparseInfo2", "vkWaitForFences", "vkResetFences",
     "submitInfo2" >>

Pointee(p) == IF p = << >> THEN << >> ELSE p[1]

(* Driver: a batch can run once every semaphore it waits on is signaled,  *)
(* a timeline semaphore having reached the batch's value for it.          *)
WaitsSatisfied(info, bin, tl) ==
  \A k \in 1..info.waitSemaphoreCount :
    LET sem == Pointee(info.pWaitSemaphores)[k]
    IN  IF sem.type = "binary" THEN bin[sem.index] = 1
        ELSE tl[sem.index] >= Pointee(info.pNext.pWaitSemaphoreValues)[k]

\* Mutation: a wait leaves the binary semaphore signaled.
BinaryAfter_WaitKeepsSignal(info, bin) ==
  [i \in DOMAIN bin |->
     IF \E k \in 1..info.signalSemaphoreCount :
          Pointee(info.pSignalSemaphores)[k] = Binary(i)
       THEN 1
       ELSE bin[i]]

(* Driver: the wait on a binary semaphore unsignals it, the signal        *)
(* operation signals it.                                                  *)
BinaryAfter(info, bin) ==
  [i \in DOMAIN bin |->
     IF \E k \in 1..info.signalSemaphoreCount :
          Pointee(info.pSignalSemaphores)[k] = Binary(i)
       THEN 1
     ELSE IF \E k \in 1..info.waitSemaphoreCount :
          Pointee(info.pWaitSemaphores)[k] = Binary(i)
       THEN 0
       ELSE bin[i]]

(* Driver: a signal sets a timeline semaphore to the value paired with it *)
(* in the chained VkTimelineSemaphoreSubmitInfo.                          *)
TimelineAfter(info, tl) ==
  [i \in DOMAIN tl |->
     IF \E k \in 1..info.signalSemaphoreCount :
          Pointee(info.pSignalSemaphores)[k] = Timeline(i)
       THEN LET k == CHOOSE j \in 1..info.signalSemaphoreCount :
                       Pointee(info.pSignalSemaphores)[j] = Timeline(i)
            IN  Pointee(info.pNext.pSignalSemaphoreValues)[k]
       ELSE tl[i]]

BsAt(calls) ==
  /\ bs_pc = "run"
  /\ bs_pos <= Len(BindSparseCalls)
  /\ BindSparseCalls[bs_pos] \in calls

\* VK_VALIDATE_RESULT(f): anything but VK_SUCCESS ends the process.
BsValidated(res) ==
  IF res = VK_SUCCESS
    THEN bs_pos' = bs_pos + 1 /\ UNCHANGED bs_pc
    ELSE bs_pc' = "exit_0" /\ UNCHANGED bs_pos

\* VK_VALIDATE_RESULT(vkQueueSubmit(device->queue, 1, &info, fence))
BsQueueSubmit ==
  /\ BsAt({"submitInfo", "submitInfo2"})
  /\ \E res \in HostCallResults :
       /\ bs_pending' = IF res = VK_SUCCESS
                          THEN bs_pending \cup {BindSparseCalls[bs_pos]}
                          ELSE bs_pending
       /\ BsValidated(res)
  /\ UNCHANGED <<binarySemaphores, timelineSemaphores, fence, bs_completed>>
  /\ UNCHANGED otherThanBs

\* VK_VALIDATE_RESULT(vkQueueBindSparse(device->queue, 1, &info, fence))
BsQueueBindSparse ==
  /\ BsAt({"bindSparseInfo1", "bindSparseInfo2"})
  /\ \E res \in HostCallResults :
       /\ bs_pending' = IF res = VK_SUCCESS
                          THEN bs_pending \cup {BindSparseCalls[bs_pos]}
                          ELSE bs_pending
       /\ BsValidated(res)
  /\ UNCHANGED <<binarySemaphores, timelineSemaphores, fence, bs_completed>>
  /\ UNCHANGED otherThanBs

\* The device completes a pending batch whose waits are satisfied, and
\* signals the fence passed with it.
BsDeviceCompletes ==
  /\ \E name \in bs_pending :
       /\ WaitsSatisfied(Descriptor(name), binarySemaphores, timelineSemaphores)
       /\ binarySemaphores' = BinaryAfter(Descriptor(name), binarySemaphores)
       /\ timelineSemaphores' = TimelineAfter(Descriptor(name), timelineSemaphores)
       /\ bs_pending' = bs_pending \ {name}
       /\ bs_completed' = Append(bs_completed, name)
  /\ fence' = TRUE
  /\ UNCHANGED <<bs_pos, bs_pc>>
  /\ UNCHANGED otherThanBs

\* vkWaitForFences: VK_TIMEOUT is logged and the test goes on; any other
\* failure ends the process.
BsWaitForFences ==
  /\ BsAt({"vkWaitForFences"})
  /\ \E result \in (IF fence THEN {VK_SUCCESS} ELSE {VK_TIMEOUT})
                       \cup {VK_ERROR_DEVICE_LOST} :
       IF result = VK_TIMEOUT
         THEN bs_pos' = bs_pos + 1 /\ UNCHANGED bs_pc
         ELSE BsValidated(result)
  /\ UNCHANGED <<binarySemaphores, timelineSemaphores, fence, bs_pending,
                 bs_completed>>
  /\ UNCHANGED otherThanBs

\* VK_VALIDATE_RESULT(vkResetFences(vk_device, 1, &fence))
BsResetFences ==
  /\ BsAt({"vkResetFences"})
  /\ \E res \in HostCallResults :
       /\ fence' = IF res = VK_SUCCESS THEN FALSE ELSE fence
       /\ BsValidated(res)
  /\ UNCHANGED <<binarySemaphores, timelineSemaphores, bs_pending, bs_completed>>
  /\ UNCHANGED otherThanBs

BsReturn ==
  /\ bs_pc = "run"
  /\ bs_pos > Len(BindSparseCalls)
  /\ bs_pc' = "returned"
  /\ UNCHANGED <<binarySemaphores, timelineSemaphores, fence, bs_pending,
                 bs_completed, bs_pos>>
  /\ UNCHANGED otherThanBs

InitBindSparse ==
  /\ binarySemaphores = [i \in 0..(kNumBinarySemaphores - 1) |-> 0]
  /\ timelineSemaphores =
       [i \in 0..(kNumTimelineSemaphores - 1) |-> TimelineInitialValue]
  /\ fence = FALSE
  /\ bs_pending = {}
  /\ bs_completed = << >>
  /\ bs_pos = 1
  /\ bs_pc = "run"

IdleBindSparse == InitBindSparse

----------------------------------------------------------------------------
(* Pointers into context.devices, a std::vector<VulkanDevice>: what a      *)
(* pointer GetDevice or GetSingleDevice returned denotes after later       *)
(* calls on the same context.                                              *)

\* &(*it), &devices[0]: the address of a slot of the current storage.
AddressOf(slot, storage, devs) ==
  << [storage |-> storage, slot |-> slot, device |-> devs[slot].device] >>

\* The record a held pointer denotes is still the one of its device.
DenotesItsRecord(ref, storage, devs) ==
  /\ ref.storage = storage
  /\ ref.slot <= Len(devs)
  /\ devs[ref.slot].device = ref.device

\* context->devices.push_back(device): into the free room of the storage,
\* or, when it is full, into a new and larger allocation to which the
\* records are moved.
RfInitVulkanDevice ==
  /\ rf_pc = "run" /\ rf_ops < MaxOps
  /\ Len(rf_devices) < MaxDevices
  /\ \E h \in Handles \ { rf_devices[i].device : i \in DOMAIN rf_devices } :
       rf_devices' = Append(rf_devices, VulkanDevice(h))
  /\ IF Len(rf_devices) < rf_capacity
       THEN UNCHANGED <<rf_capacity, rf_storage>>
       ELSE /\ rf_capacity' \in (Len(rf_devices) + 1)..MaxDevices
            /\ rf_storage' = rf_storage + 1
  /\ rf_ops' = rf_ops + 1
  /\ UNCHANGED <<rf_ref, rf_pc>>
  /\ UNCHANGED otherThanRf

\* GetDevice: &(*it) of the first record with the handle, or nullptr.
RfGetDevice ==
  /\ rf_pc = "run" /\ rf_ops < MaxOps
  /\ \E g \in Handles :
       rf_ref' = IF FindDevice(rf_devices, g) = 0 THEN << >>
                 ELSE AddressOf(FindDevice(rf_devices, g), rf_storage, rf_devices)
  /\ rf_ops' = rf_ops + 1
  /\ UNCHANGED <<rf_devices, rf_capacity, rf_storage, rf_pc>>
  /\ UNCHANGED otherThanRf

\* GetSingleDevice: assert(devices.size() == 1); return &devices[0];
RfGetSingleDevice ==
  /\ rf_pc = "run" /\ rf_ops < MaxOps
  /\ \E carries_on \in BOOLEAN :
       IF Len(rf_devices) = 1 \/ (carries_on /\ Len(rf_devices) > 1)
         THEN /\ rf_ref' = AddressOf(1, rf_storage, rf_devices)
              /\ UNCHANGED rf_pc
         ELSE /\ rf_ref' = << >>
              /\ rf_pc' = IF carries_on THEN rf_pc ELSE "aborted"
  /\ rf_ops' = rf_ops + 1
  /\ UNCHANGED <<rf_devices, rf_capacity, rf_storage>>
  /\ UNCHANGED otherThanRf

\* DeleteVulkanDevice: erase(it) moves every later record one slot down,
\* in the same storage.  A pointer to the erased device's own record is
\* no longer followed.
RfDeleteVulkanDevice ==
  /\ rf_pc = "run" /\ rf_ops < MaxOps
  /\ \E h \in Handles :
       /\ rf_devices' = EraseFirst(rf_devices, h)
       /\ rf_ref' = IF rf_ref # << >> /\ rf_ref[1].device = h
                      THEN << >> ELSE rf_ref
  /\ rf_ops' = rf_ops + 1
  /\ UNCHANGED <<rf_capacity, rf_storage, rf_pc>>
  /\ UNCHANGED otherThanRf

\* CleanupVulkan: devices.clear() ends every record.
RfCleanupVulkan ==
  /\ rf_pc = "run" /\ rf_ops < MaxOps
  /\ rf_devices' = << >>
  /\ rf_ref' = << >>
  /\ rf_ops' = rf_ops + 1
  /\ UNCHANGED <<rf_capacity, rf_storage, rf_pc>>
  /\ UNCHANGED otherThanRf

\* VulkanContext context;  an empty vector, no storage yet.
InitReferences ==
  /\ rf_devices = << >>
  /\ rf_capacity = 0
  /\ rf_storage = 0
  /\ rf_ref = << >>
  /\ rf_ops = 0
  /\ rf_pc = "run"

IdleReferences == InitReferences

----------------------------------------------------------------------------
(* Specifications.                                                         *)

\* The parts a specification is not about start in one fixed state.
IdleExceptFor(parts) ==
  /\ IF "InitVulkan" \in parts THEN TRUE ELSE IdleInitVulkan
  /\ IF "SelectQueue" \in parts THEN TRUE ELSE IdleSelectQueue
  /\ IF "FindMemoryType" \in parts THEN TRUE ELSE IdleFindMemoryType
  /\ IF "AllocateBuffers" \in parts THEN TRUE ELSE IdleAllocateBuffers
  /\ IF "CreateSubmitInfo" \in parts THEN TRUE ELSE IdleCreateSubmitInfo
  /\ IF "Marker" \in parts THEN TRUE ELSE IdleMarker
  /\ IF "Flags" \in parts THEN TRUE ELSE IdleFlags
  /\ IF "QueueCreate" \in parts THEN TRUE ELSE IdleQueueCreate
  /\ IF "CommandPools" \in parts THEN TRUE ELSE IdleCommandPools
  /\ IF "AllocateMemory" \in parts THEN TRUE ELSE IdleAllocateMemory
  /\ IF "Record" \in parts THEN TRUE ELSE IdleRecord
  /\ IF "LoadShader" \in parts THEN TRUE ELSE IdleLoadShader
  /\ IF "Programs" \in parts THEN TRUE ELSE IdlePrograms
  /\ IF "BindSparse" \in parts THEN TRUE ELSE IdleBindSparse
  /\ IF "References" \in parts THEN TRUE ELSE IdleReferences

IdleExcept(part) == IdleExceptFor({part})

\* The crash-check envelope around either payload; no watchdog activity.
Init ==
  InitCrash /\ InitWatchdog /\ InitDevices /\ InitMultiDevice /\ IdleExcept("none")

Next ==
  \/ RunWithCrashCheck
  \/ Payload
  \/ DeviceLost

Spec == Init /\ [][Next]_vars

\* The watchdog thread against the main thread; the envelope stays put.
IdleBase ==
  InitCrash /\ payload = "generic" /\ InitWatchdog /\ InitDevices /\ InitMultiDevice

InitWatchdogSpec == IdleBase /\ IdleExcept("none")

NextWatchdog ==
  \/ MainSetup
  \/ MainBlock
  \/ MainExit
  \/ WatchdogTimer
  \/ WdSpuriousWake
  \/ Expire
  \/ WaitForWatchdogThread
  \/ \E t \in Threads : FinishExit(t)

SpecWatchdog == InitWatchdogSpec /\ [][NextWatchdog]_vars

\* The same two threads over an ideal condition variable: wait_for wakes
\* only on a notification or a timeout, and reports a timeout only when
\* its duration elapsed while it was blocked.  Every behaviour of this
\* specification is a behaviour of SpecWatchdog.
NextWatchdogIdeal ==
  \/ MainSetup
  \/ MainBlock
  \/ MainExit
  \/ WatchdogTimer
  \/ ExpireWhileBlocked
  \/ WaitForWatchdogThread
  \/ \E t \in Threads : FinishExit(t)

SpecWatchdogIdeal == InitWatchdogSpec /\ [][NextWatchdogIdeal]_vars

\* The two threads with both outcomes of a second call of exit, every
\* thread that can take a step taking one eventually and time passing.
NextWatchdogExit ==
  \/ MainSetup
  \/ MainBlock
  \/ MainExit
  \/ MainExitBlocks
  \/ WatchdogTimer
  \/ WdExitBlocks
  \/ WdSpuriousWake
  \/ Expire
  \/ WaitForWatchdogThread
  \/ \E t \in Threads : FinishExit(t)

FairWatchdogExit ==
  /\ WF_vars(WatchdogTimer)
  /\ WF_vars(Expire)
  /\ \A t \in Threads : WF_vars(HandlerSteps(t)) /\ WF_vars(FinishExit(t))

SpecWatchdogExit ==
  InitWatchdogSpec /\ [][NextWatchdogExit]_vars /\ FairWatchdogExit

\* Two threads calling the operations of the device collection.
NextDevices ==
  \E t \in DevThreads :
    \/ CallInitVulkanDevice(t)
    \/ CallGetDevice(t)
    \/ CallGetSingleDevice(t)
    \/ CallDeleteVulkanDevice(t)
    \/ CallCleanupVulkan(t)
    \/ AcquireDevicesLock(t)
    \/ InitVulkanDevice(t)
    \/ GetDevice(t)
    \/ GetSingleDevice(t)
    \/ DeleteVulkanDevice(t)
    \/ CleanupVulkan(t)

SpecDevices == InitWatchdogSpec /\ [][NextDevices]_vars

\* main of hang_host_event_multi_device.cc against the driver.
NextMultiDevice ==
  \/ MdInitVulkanDevice
  \/ MdInitVulkanDeviceAborts
  \/ MdSetupWatchdogTimer
  \/ TestVulkanGetDevice
  \/ TestVulkanAllocate
  \/ TestVulkanSubmit
  \/ TestVulkanWaitIdle
  \/ MdDeleteVulkanDevice
  \/ MdDeviceLost
  \/ MdWatchdogTimer

SpecMultiDevice == InitWatchdogSpec /\ [][NextMultiDevice]_vars

\* A test program from its start to the end of InitVulkan.
InitInitVulkanSpec == IdleBase /\ IdleExcept("InitVulkan") /\ InitInitVulkan

NextInitVulkan ==
  \/ IvInitVulkanInstance
  \/ IvCheckedCall
  \/ IvRegister
  \/ IvInitVulkanReturns

SpecInitVulkan == InitInitVulkanSpec /\ [][NextInitVulkan]_vars

\* SelectQueue on every list of queue families and every class.
InitSelectQueueSpec == IdleBase /\ IdleExcept("SelectQueue") /\ InitSelectQueue

NextSelectQueue == CallSelectQueue

SpecSelectQueue == InitSelectQueueSpec /\ [][NextSelectQueue]_vars

\* FindMemoryType on every list of memory types and every pair of masks.
InitFindMemoryTypeSpec ==
  IdleBase /\ IdleExcept("FindMemoryType") /\ InitFindMemoryType

NextFindMemoryType == CallFindMemoryType

SpecFindMemoryType == InitFindMemoryTypeSpec /\ [][NextFindMemoryType]_vars

\* AllocateInputOutputBuffers in every mode, on fresh memory of any content.
InitAllocateBuffersSpec ==
  IdleBase /\ IdleExcept("AllocateBuffers") /\ InitAllocateBuffers

NextAllocateBuffers ==
  \/ AbCreateAndAllocate
  \/ AbBind
  \/ AbInitialize

SpecAllocateBuffers == InitAllocateBuffersSpec /\ [][NextAllocateBuffers]_vars

\* CreateSubmitInfo on every combination of lists.
InitCreateSubmitInfoSpec ==
  IdleBase /\ IdleExcept("CreateSubmitInfo") /\ InitCreateSubmitInfo

NextCreateSubmitInfo == CallCreateSubmitInfo

SpecCreateSubmitInfo == InitCreateSubmitInfoSpec /\ [][NextCreateSubmitInfo]_vars

\* TestVulkan of buffer_marker_test.cc against the queue.
InitMarkerSpec == IdleBase /\ IdleExcept("Marker") /\ InitMarker

NextMarker ==
  \/ MkAllocate
  \/ MkInitialize
  \/ MkRecord
  \/ MkSubmit
  \/ GpuIssue
  \/ GpuDispatchCompletes
  \/ MkWaitIdle

SpecMarker == InitMarkerSpec /\ [][NextMarker]_vars

\* InitFlags over every command line.
InitFlagsSpec == IdleBase /\ IdleExcept("Flags") /\ InitInitFlags

NextFlags ==
  \/ FlArgument
  \/ FlReturn

SpecFlags == InitFlagsSpec /\ [][NextFlags]_vars

\* The queue loop of InitVulkanDevice over every list of requests.
InitQueueCreateSpec == IdleBase /\ IdleExcept("QueueCreate") /\ InitQueueCreate

NextQueueCreate ==
  \/ QcRequest
  \/ QcDeviceInfo

SpecQueueCreate == InitQueueCreateSpec /\ [][NextQueueCreate]_vars

\* The queue loop followed by the queue and command-pool loop.
InitCommandPoolsSpec ==
  /\ IdleBase /\ IdleExcept("QueueCreate") /\ InitQueueCreate
  /\ \A k \in DOMAIN physicalDevice : physicalDevice[k] \in ClassFlags

NextCommandPools ==
  \/ QcRequest
  \/ QcDeviceInfo
  \/ CpReturnEarly
  \/ CpQueueAndPool
  \/ CpDefaults

SpecCommandPools == InitCommandPoolsSpec /\ [][NextCommandPools]_vars

\* FindMemoryType as its callers use it: HOST_VISIBLE | HOST_COHERENT
\* required, the result handed to vkAllocateMemory.
InitAllocateMemorySpec ==
  /\ IdleBase /\ IdleExcept("FindMemoryType") /\ InitFindMemoryType
  /\ memoryProperties = bufferMemoryType

NextAllocateMemory ==
  \/ CallFindMemoryType
  \/ AlAllocateMemory

SpecAllocateMemory == InitAllocateMemorySpec /\ [][NextAllocateMemory]_vars

\* One call of CreateAndRecordCommandBuffers after InitFlags.
InitRecordSpec ==
  IdleBase /\ IdleExceptFor({"Flags", "Record"}) /\ InitFlagsReturned /\ InitRecord

NextRecord ==
  \/ CrAllocatePrimary
  \/ CrAllocateSecondary
  \/ CrBegin
  \/ CrCallback
  \/ CrEnd
  \/ CrBeginPrimary
  \/ CrExecuteCommands
  \/ CrEndPrimary

SpecRecord == InitRecordSpec /\ [][NextRecord]_vars

\* LoadShader called by InitVulkanDevice or by the loader utility.
InitLoadShaderSpec == IdleBase /\ IdleExcept("LoadShader") /\ InitLoadShader

NextLoadShader ==
  \/ LsLoadShader
  \/ LsPipelineCall

SpecLoadShader == InitLoadShaderSpec /\ [][NextLoadShader]_vars

\* The main function of every program, the loader utility over every
\* command line.
InitProgramsSpec == IdleBase /\ IdleExcept("Programs") /\ InitPrograms

NextPrograms ==
  \/ PgInitVulkanInstance
  \/ PgInitVulkanDevice
  \/ PgSetupWatchdogTimer
  \/ PgGetSingleDevice
  \/ PgQueueSubmit
  \/ PgDeleteVulkanDevice
  \/ PgCleanupVulkan
  \/ PgLoadShader
  \/ PgExitUsage
  \/ PgReturn

SpecPrograms == InitProgramsSpec /\ [][NextPrograms]_vars

\* The bind-sparse scenario: the host's calls against the device's
\* completions.
InitBindSparseSpec == IdleBase /\ IdleExcept("BindSparse") /\ InitBindSparse

NextBindSparse ==
  \/ BsQueueSubmit
  \/ BsQueueBindSparse
  \/ BsDeviceCompletes
  \/ BsWaitForFences
  \/ BsResetFences
  \/ BsReturn

SpecBindSparse == InitBindSparseSpec /\ [][NextBindSparse]_vars

\* One caller registering, looking up and removing devices while it holds
\* a pointer a lookup returned.
InitReferencesSpec == IdleBase /\ IdleExcept("References") /\ InitReferences

NextReferences ==
  \/ RfInitVulkanDevice
  \/ RfGetDevice
  \/ RfGetSingleDevice
  \/ RfDeleteVulkanDevice
  \/ RfCleanupVulkan

SpecReferences == InitReferencesSpec /\ [][NextReferences]_vars

----------------------------------------------------------------------------
(* Properties of the crash-check envelope (checked under Spec).            *)

EnvLog == SelectSeq(log, LAMBDA e : e.who = "env")

\* The calls of RunWithCrashCheck in the order the function issues them.
Envelope ==
  << "vkAllocateCommandBuffers", "vkBeginCommandBuffer", "vkEndCommandBuffer",
     "vkCreateFence", "workFn", "vkQueueWaitIdle", "vkQueueSubmit",
     "vkWaitForFences", "vkQueueWaitIdle" >>

\* The ordinal, among the payload's calls, of log entry i.
PayloadOrdinal(i) == Cardinality({ j \in 1..i : log[j].who = "payload" })

Reported(res) == \E i \in DOMAIN log : log[i].res = res

\* C1: when workFn returns to RunWithCrashCheck with the device already
\* lost, RunWithCrashCheck returns a non-success result, whatever the step-3
\* idle-wait reported.
C1_LostDeviceNeverSuccess ==
  (rpc = "returned" /\ workLost) => ret # VK_SUCCESS

\* C1 witness: the device was lost inside workFn, the step-3 idle-wait
\* reported success and the sentinel submit returned the loss.
C1_Witness ==
  /\ rpc = "returned" /\ workLost
  /\ ret = VK_ERROR_DEVICE_LOST
  /\ Len(EnvLog) = 7
  /\ EnvLog[6] = Entry("env", "vkQueueWaitIdle", VK_SUCCESS)
  /\ EnvLog[7] = Entry("env", "vkQueueSubmit", VK_ERROR_DEVICE_LOST)

C7_FirstFailurePropagates ==
  /\ Len(EnvLog) <= Len(Envelope)
  /\ \A i \in DOMAIN EnvLog :
       /\ EnvLog[i].call = Envelope[i]
       /\ i < Len(EnvLog) => EnvLog[i].res = VK_SUCCESS
  /\ (EnvLog # << >> /\ EnvLog[Len(EnvLog)].res # VK_SUCCESS) => rpc = "returned"
  /\ rpc = "returned" =>
       /\ EnvLog # << >>
       /\ ret = EnvLog[Len(EnvLog)].res
       /\ Len(EnvLog) < Len(Envelope) => ret # VK_SUCCESS

\* C7 witness: the step-3 idle-wait failed, its result was returned and the
\* sentinel was never submitted.
C7_Witness ==
  /\ rpc = "returned"
  /\ Len(EnvLog) = 6
  /\ EnvLog[6].call = "vkQueueWaitIdle"
  /\ ret = EnvLog[6].res /\ ret # VK_SUCCESS

----------------------------------------------------------------------------
(* Properties of the watchdog (C3, C6 under SpecWatchdog; C4, C5 under     *)
(* SpecWatchdogIdeal).                                                     *)

\* C3 (its safety half): while the main thread is blocked forever and
\* nobody signals completion, the watchdog thread never returns from
\* WatchdogTimer without having terminated the process.
C3_WatchdogNeverAbandonsHang ==
  (mpc = "blocked" /\ ~notified) => wpc # "returned"

\* C4: the finish notification of WaitForWatchdogThread and the setting of
\* the timed-out flag never both occur.
C4_NeverBothOutcomes ==
  ~(notified /\ test_timedout)

\* C5: when the main thread issues the finish notification before the
\* watchdog's duration has elapsed, the watchdog never sets the timed-out
\* flag nor terminates the process.
C5_NotifiedWatchdogExitsCleanly ==
  notifiedInTime =>
    /\ ~test_timedout
    /\ wpc \notin {"timedout", "exiting"}
    /\ proc_status # "0"

\* C6: however many times SetupWatchdogTimer is called, exactly one
\* watchdog thread is started and the exit handler is registered once.
C6_SetupStartsOneThread ==
  setup_calls >= 1 =>
    /\ watchdog_thread
    /\ threads_started = 1
    /\ atexit_handlers = 1

\* C6 witness: SetupWatchdogTimer has been called again after the call
\* that started the thread.
C6_Witness ==
  /\ setup_calls >= 2
  /\ threads_started = 1
  /\ atexit_handlers = 1
  /\ wpc # "unborn"

----------------------------------------------------------------------------
(* Properties of the device collection (C8 under SpecMultiDevice; C9, C10  *)
(* under SpecDevices).                                                     *)

\* The handle, queues and command pools of a device record.
Resources(d) ==
  [ device |-> d.device, queues |-> d.queues, queue |-> d.queue,
    commandPools |-> d.commandPools, commandPool |-> d.commandPool ]

\* C8: once three devices were created and the second was removed with
\* DeleteVulkanDevice, GetDevice finds the first and the third device's own
\* records: the first one's handle, queues, pools and buffers are as they
\* were before the removal, the third one's handle, queues and pools too
\* (and its buffers until its own TestVulkan allocates them), and this
\* stays so for the first device once the hang is triggered on the third
\* and the third is lost.
C8_SiblingsSurviveDelete ==
  md_pc \in {"test3", "done"} =>
    LET i1 == FindDevice(devices, created[1])
        i3 == FindDevice(devices, created[3])
    IN  /\ i1 # 0 /\ devices[i1] = before[1]
        /\ i3 # 0 /\ Resources(devices[i3]) = Resources(before[3])
        /\ devices[i1].device = created[1]
        /\ devices[i3].device = created[3]
        /\ tv_pc \in {"none", "alloc"} => devices[i3] = before[3]
        /\ tv_pc # "none" => tv_device = i3

\* C8 witness: the second device is gone, its record had buffers of its
\* own, the third device hangs and is lost, and the first is still found.
C8_Witness ==
  /\ md_pc = "test3"
  /\ Len(devices) = 2
  /\ FindDevice(devices, created[2]) = 0
  /\ before[2].bufferIn # <<"unset">>
  /\ created[3] \in hungDevices /\ created[3] \in lostDevices
  /\ FindDevice(devices, created[1]) = 1

\* C9: a thread reading or modifying the device collection holds
\* devices_lock for as long as it does, so no two threads are in the
\* collection at once.
C9_AccessHoldsDevicesLock ==
  /\ \A t \in DevThreads : tpc[t] = "access" => devices_lock = t
  /\ \A t, u \in DevThreads : (tpc[t] = "access" /\ tpc[u] = "access") => t = u

\* The smallest slot of pre whose record has handle h, 0 when there is none.
FirstMatch(pre, h) ==
  LET hits == { i \in DOMAIN pre : pre[i].device = h }
  IN  IF hits = {} THEN 0 ELSE CHOOSE i \in hits : \A j \in hits : i <= j

\* C10: DeleteVulkanDevice(context, h) removes exactly the first record
\* whose handle is h and keeps every other record in its place relative to
\* the others; with no such record the collection is unchanged; either way
\* vkDestroyDevice is called once on h and on nothing else.
C10_DeleteRemovesFirstMatchOnly ==
  lastDelete.h # VK_NULL_HANDLE =>
    LET pre == lastDelete.pre
        post == lastDelete.post
        h == lastDelete.h
        k == FirstMatch(pre, h)
    IN  /\ k = 0 => post = pre
        /\ k # 0 =>
             /\ Len(post) = Len(pre) - 1
             /\ \A i \in 1..(k - 1) : post[i] = pre[i]
             /\ \A i \in k..Len(post) : post[i] = pre[i + 1]
        /\ \A g \in Handles :
             lastDelete.destroyedPost[g] =
               lastDelete.destroyedPre[g] + (IF g = h THEN 1 ELSE 0)

\* C10 witness: a delete that removed the first of three records.
C10_Witness ==
  /\ lastDelete.h # VK_NULL_HANDLE
  /\ Len(lastDelete.pre) = 3
  /\ FirstMatch(lastDelete.pre, lastDelete.h) = 1
  /\ Len(lastDelete.post) = 2

----------------------------------------------------------------------------
(* Properties of InitVulkan (under SpecInitVulkan).                        *)

\* C11: when a checked Vulkan call inside InitVulkanDevice has failed, the
\* program ends with InitVulkanDevice having returned a null handle, no
\* device record registered, InitVulkan having returned false and exit
\* status 1.
C11_FailedInitExitsWithOne ==
  (iv_failed # {} /\ iv_exit # "running") =>
    /\ iv_ret = <<VK_NULL_HANDLE>>
    /\ devices = << >>
    /\ iv_ok = "false"
    /\ iv_exit = "1"

----------------------------------------------------------------------------
(* Properties of SelectQueue (under SpecSelectQueue).                      *)

\* The rule of a class, on the set of capability bits of a family.
HasBit(flags, bit) == (flags \div bit) % 2 = 1

ClassRule(flags, type) ==
  CASE type = "Compute" ->
         HasBit(flags, VK_QUEUE_COMPUTE_BIT) /\ ~HasBit(flags, VK_QUEUE_GRAPHICS_BIT)
    [] type = "Transfer" ->
         /\ HasBit(flags, VK_QUEUE_TRANSFER_BIT)
         /\ ~HasBit(flags, VK_QUEUE_GRAPHICS_BIT)
         /\ ~HasBit(flags, VK_QUEUE_COMPUTE_BIT)
    [] OTHER -> HasBit(flags, VK_QUEUE_GRAPHICS_BIT)

\* C12: SelectQueue returns the lowest 0-based family index whose flags
\* satisfy the rule of the requested class, and the family count (an
\* out-of-range index) when no family satisfies it.
C12_SelectQueueLowestMatch ==
  sq_pc = "returned" =>
    LET hits == { i \in 1..Len(queue_families) :
                    ClassRule(queue_families[i], queue_type) }
    IN  IF hits = {}
          THEN queue_index = Len(queue_families)
          ELSE /\ queue_index + 1 \in hits
               /\ \A i \in hits : queue_index + 1 <= i

\* C12 witness: a compute request skips a graphics+compute family and a
\* transfer-only family and lands on the compute-only family behind them.
C12_Witness ==
  /\ sq_pc = "returned"
  /\ queue_type = "Compute"
  /\ queue_families = <<3, 4, 6>>
  /\ queue_index = 2

----------------------------------------------------------------------------
(* Properties of FindMemoryType (under SpecFindMemoryType).                *)

\* The positions of the bits set in n, among the low eight.
BitsOf(n) == { k \in 0..7 : (n \div (2 ^ k)) % 2 = 1 }

\* 0xFFFFFFFF
NotFoundSentinel == <<65535, 65535>>

\* C13: FindMemoryType returns the lowest index whose bit is set in the
\* type bitmask and whose property flags contain every required flag, and
\* returns -1 as an unsigned 32-bit value exactly when there is no such
\* index.
C13_FindMemoryTypeLowestMatch ==
  fm_pc = "returned" =>
    LET hits == { i \in 0..(Len(memoryTypes) - 1) :
                    /\ i \in BitsOf(memoryTypeBits)
                    /\ BitsOf(memoryProperties) \subseteq BitsOf(memoryTypes[i + 1]) }
    IN  /\ (memoryTypeIndex = NotFoundSentinel) <=> (hits = {})
        /\ hits # {} =>
             /\ memoryTypeIndex[1] = 0
             /\ memoryTypeIndex[2] \in hits
             /\ \A i \in hits : memoryTypeIndex[2] <= i

\* C13 witness: type 0 is masked out, type 1 has only one of the two
\* required flags, type 2 is returned.
C13_Witness ==
  /\ fm_pc = "returned"
  /\ memoryTypes = <<3, 1, 3>>
  /\ memoryTypeBits = 6
  /\ memoryProperties = 3
  /\ memoryTypeIndex = <<0, 2>>

----------------------------------------------------------------------------
(* Properties of AllocateInputOutputBuffers (under SpecAllocateBuffers).   *)

\* The layout after a successful call, and the out region, read through
\* the offset bufferOut is bound at, holding zeros.
LayoutAndZeroedOutput ==
  /\ bindIn = 0
  /\ bindOut = BufferSize(numBufferEntries)
  /\ allocationSize = 2 * BufferSize(numBufferEntries)
  /\ \A k \in 0..(numBufferEntries - 1) :
       bufferMemory[bindOut \div SizeofFloat + k] = <<0, 0>>

\* C14 as stated: after a successful AllocateInputOutputBuffers the in
\* buffer is bound at 0 and the out buffer at bufferSize of one allocation
\* of 2*bufferSize bytes, and the out region reads as zeros, in every mode.
C14_ZeroedOutputEveryMode ==
  ab_pc = "done" => LayoutAndZeroedOutput

\* C14 amended: the same for every mode that initialises (Default,
\* MinusOne, _64K, Transfer); with None the layout holds and the content of
\* the allocation is whatever the driver handed back.
C14_ZeroedOutputWhenInitialized ==
  ab_pc = "done" =>
    /\ bindIn = 0
    /\ bindOut = BufferSize(numBufferEntries)
    /\ allocationSize = 2 * BufferSize(numBufferEntries)
    /\ initialization # "None" => LayoutAndZeroedOutput

\* C14 witness: a MinusOne call over memory that was not zero has written
\* -1.0f to the in region and zeroed the out region.
C14_Witness ==
  /\ ab_pc = "done"
  /\ initialization = "MinusOne"
  /\ numBufferEntries = MaxBufferEntries
  /\ bufferMemory[0] = <<49024, 0>>
  /\ bufferMemory[numBufferEntries] = <<0, 0>>

----------------------------------------------------------------------------
(* Properties of CreateSubmitInfo (under SpecCreateSubmitInfo).            *)

\* The number of elements of an optional list, 0 when it is absent.
CountOf(list) == IF list = << >> THEN 0 ELSE Len(list[1])

\* C15: the descriptor built from N wait semaphores and N stage masks
\* reports waitSemaphoreCount = N and points at the caller's two sequences,
\* element for element; signalSemaphoreCount is the length of the signal
\* list, which it points at; it carries exactly one command buffer and the
\* extension chain handed in; an absent list gives count 0.
C15_SubmitInfoRoundTrip ==
  si_pc = "returned" =>
    /\ submit_info.waitSemaphoreCount = CountOf(wait_semaphores)
    /\ submit_info.pWaitSemaphores = wait_semaphores
    /\ submit_info.pWaitDstStageMask = wait_dst_stage_masks
    /\ CountOf(submit_info.pWaitDstStageMask) = submit_info.waitSemaphoreCount
    /\ submit_info.signalSemaphoreCount = CountOf(signal_semaphores)
    /\ submit_info.pSignalSemaphores = signal_semaphores
    /\ submit_info.commandBufferCount = 1
    /\ submit_info.pCommandBuffers = <<"commandBuffer">>
    /\ submit_info.pNext = pnext

\* C15 witness: two wait semaphores with two different stage masks, one
\* signal semaphore and an extension chain.
C15_Witness ==
  /\ si_pc = "returned"
  /\ submit_info.waitSemaphoreCount = 2
  /\ submit_info.pWaitSemaphores = << <<"binary_semaphore", "timeline_semaphore">> >>
  /\ submit_info.pWaitDstStageMask = << <<"ALL_GRAPHICS", "COMPUTE_SHADER">> >>
  /\ submit_info.signalSemaphoreCount = 1
  /\ submit_info.pNext = "timelineSemaphoreSubmitInfo"

----------------------------------------------------------------------------
(* Properties of the marker buffer (under SpecMarker).                     *)

\* C16: once the queue idle-wait has returned after the submitted
\* sequence completed, the first four words of the marker buffer are
\* 0xDEADBEEF, 0x0BADF00D, 2, 3 and every later word still holds its index.
C16_MarkersAfterIdle ==
  mk_pc = "done" =>
    /\ markerBuffer[0] = <<57005, 48879>>
    /\ markerBuffer[1] = <<2989, 61453>>
    /\ markerBuffer[2] = <<0, 2>>
    /\ markerBuffer[3] = <<0, 3>>
    /\ \A w \in 2..(markerEntries - 1) : markerBuffer[w] = <<0, w>>

\* C16 witness: the idle-wait has returned on a buffer of more than four
\* words, with both markers written.
C16_Witness ==
  /\ mk_pc = "done"
  /\ markerEntries = MaxMarkerEntries
  /\ markerBuffer[0] = <<57005, 48879>>
  /\ markerBuffer[1] = <<2989, 61453>>

----------------------------------------------------------------------------
(* Properties of the flags (under SpecFlags).                              *)

\* The text of an argument before its first "=": the longest prefix
\* holding no "=".
NamePart(arg) ==
  LET n == CHOOSE n \in 0..Len(arg) :
             /\ \A j \in 1..n : arg[j] # "="
             /\ n < Len(arg) => arg[n + 1] = "="
  IN  [j \in 1..n |-> arg[j]]

SomeNameUndefined == \E i \in 1..Len(argv) : NamePart(argv[i]) \notin CommonFlags

\* C17: InitFlags prints the defined flags and exits with failure exactly
\* when some argument's name part is not a defined flag; otherwise it
\* returns, every argument's name is recorded, and GetFlag is non-null
\* exactly for the flags that appeared on the command line.
C17_InitFlagsContract ==
  fl_pc # "running" =>
    /\ (fl_pc = "exit_failure") <=> SomeNameUndefined
    /\ fl_pc = "exit_failure" => (fl_stderr # << >> /\ fl_stderr[2] = CommonFlags)
    /\ fl_pc = "returned" =>
         /\ fl_stderr = << >>
         /\ \A key \in Strings \cup CommonFlags :
              (GetFlag(key) # << >>) <=>
                (\E i \in 1..Len(argv) : NamePart(argv[i]) = key)

\* C17 witness: InitFlags has returned from a command line with two
\* flags, one of them with a value part, and both are reported.
C17_Witness ==
  /\ fl_pc = "returned"
  /\ Len(argv) = 2
  /\ argv[1] = <<"--queue", "=">>
  /\ GetFlag(<<"--queue">>) # << >>
  /\ GetFlag(<<"--secondary">>) # << >>
  /\ GetFlag(<<"--debug_utils">>) = << >>

----------------------------------------------------------------------------
(* The watchdog's exit (under SpecWatchdog).                               *)

\* C18 as stated: once the timed-out flag is set, no exit-time handler
\* runs on any thread before the process ends.
C18_NoHandlerAfterTimeout ==
  test_timedout => \A t \in Threads : hpc[t] = "none"

\* C18: on timeout the watchdog calls exit(0), which runs the registered
\* WaitForWatchdogThread on the watchdog's thread; the handler sees the
\* flag and returns without locking, notifying or joining, and only then
\* does the process end, with status 0.
C18_TimeoutHandlerReturnsAtOnce ==
  /\ hpc["watchdog"] \in {"none", "check", "done"}
  /\ hpc["watchdog"] # "none" => (test_timedout /\ wpc = "exiting")
  /\ proc_status = "0" => (test_timedout /\ hpc["watchdog"] = "done")

\* C18 witness: the watchdog timed out on a blocked main thread, its
\* handler ran and returned, and the process ended with status 0.
C18_Witness ==
  /\ proc_status = "0"
  /\ test_timedout
  /\ hpc["watchdog"] = "done"
  /\ mpc = "blocked"

----------------------------------------------------------------------------
(* The order of events of one RunWithCrashCheck (under Spec).              *)

\* The positions in the log of the envelope's calls of one name.
EnvAt(call) == { i \in DOMAIN log : log[i].who = "env" /\ log[i].call = call }

\* Every call b of the envelope comes after a successful call a.
Precedes(a, b) ==
  \A j \in EnvAt(b) : \E i \in EnvAt(a) : i < j /\ log[i].res = VK_SUCCESS

\* C19: the events of a run come in this order: sentinel command buffer
\* begun and ended, fence created, workFn invoked (once), idle-wait,
\* sentinel submitted, fence wait, final idle-wait; every call workFn makes
\* lies between its invocation and the first idle-wait, the sentinel is
\* submitted only after workFn returned and the fence waited on only after
\* the sentinel was submitted.
C19_EnvelopeOrder ==
  /\ Precedes("vkAllocateCommandBuffers", "vkBeginCommandBuffer")
  /\ Precedes("vkBeginCommandBuffer", "vkEndCommandBuffer")
  /\ Precedes("vkEndCommandBuffer", "vkCreateFence")
  /\ Precedes("vkCreateFence", "workFn")
  /\ Cardinality(EnvAt("workFn")) <= 1
  /\ Cardinality(EnvAt("vkQueueSubmit")) <= 1
  /\ Cardinality(EnvAt("vkWaitForFences")) <= 1
  /\ Cardinality(EnvAt("vkQueueWaitIdle")) <= 2
  /\ Precedes("workFn", "vkQueueWaitIdle")
  /\ Precedes("vkQueueWaitIdle", "vkQueueSubmit")
  /\ Precedes("vkQueueSubmit", "vkWaitForFences")
  /\ \A i, j \in EnvAt("vkQueueWaitIdle") :
       i < j => \E w \in EnvAt("vkWaitForFences") :
                  i < w /\ w < j /\ log[w].res = VK_SUCCESS
  /\ \A j \in DOMAIN log : log[j].who = "payload" =>
       /\ \E i \in EnvAt("workFn") : i < j
       /\ \A i \in EnvAt("vkQueueWaitIdle") \cup EnvAt("vkQueueSubmit") : j < i
  /\ EnvAt("vkQueueWaitIdle") # {} => (ppc = "done" /\ Cardinality(EnvAt("workFn")) = 1)
  /\ EnvAt("vkQueueSubmit") # {} => ppc = "done"

\* C19 witness: a complete run in which workFn made calls of its own: all
\* nine calls of the envelope are in the log.
C19_Witness ==
  /\ rpc = "returned"
  /\ pcalls > 0
  /\ Cardinality(EnvAt("vkQueueWaitIdle")) = 2
  /\ EnvAt("vkWaitForFences") # {}

----------------------------------------------------------------------------
(* Properties of the queue-creation descriptors (under SpecQueueCreate).   *)

\* The family request i resolves to.
Resolved(i) == SelectQueue(physicalDevice, queues[i])

ResolvedFamilies == { Resolved(i) : i \in 1..Len(queues) }

RECURSIVE SumOfCounts(_, _)
SumOfCounts(infos, n) ==
  IF n = 0 THEN 0 ELSE infos[n].queueCount + SumOfCounts(infos, n - 1)

\* C20: when the loop is over there is exactly one descriptor per distinct
\* resolved family, its queueCount is the number of requests resolving to
\* that family, the counts sum to the number of requests, request i is
\* recorded as <<its family, the number of earlier requests of the same
\* family>>, and the recorded pairs are pairwise distinct.
C20_QueueDescriptors ==
  qc_pc = "done" =>
    /\ queueCreateInfoCount = Cardinality(ResolvedFamilies)
    /\ Len(queue_create_infos) = Cardinality(ResolvedFamilies)
    /\ { queue_create_infos[d].queueFamilyIndex : d \in DOMAIN queue_create_infos }
         = ResolvedFamilies
    /\ \A d \in DOMAIN queue_create_infos :
         queue_create_infos[d].queueCount =
           Cardinality({ i \in 1..Len(queues) :
                           Resolved(i) = queue_create_infos[d].queueFamilyIndex })
    /\ SumOfCounts(queue_create_infos, Len(queue_create_infos)) = Len(queues)
    /\ Len(queue_indices) = Len(queues)
    /\ \A i \in 1..Len(queues) :
         queue_indices[i] =
           <<Resolved(i), Cardinality({ j \in 1..(i - 1) : Resolved(j) = Resolved(i) })>>
    /\ \A i, j \in 1..Len(queues) : i # j => queue_indices[i] # queue_indices[j]

\* C20 witness: three requests on two families, two of them sharing one:
\* two descriptors, with counts 2 and 1.
C20_Witness ==
  /\ qc_pc = "done"
  /\ Len(queues) = 3
  /\ Len(queue_create_infos) = 2
  /\ queue_create_infos[1].queueCount = 2
  /\ queue_indices[3] = <<queue_create_infos[1].queueFamilyIndex, 1>>

----------------------------------------------------------------------------
(* Properties of the command pools (under SpecCommandPools).               *)

\* No vkCreateCommandPool failed.
AllPoolsCreated ==
  \A k \in DOMAIN commandPools : commandPools[k] # GarbagePool

\* C21 as stated: after InitVulkanDevice with a non-empty request list the
\* number of command pools is the number of distinct families requested.
C21_OnePoolPerFamily ==
  (cp_pc = "done" /\ AllPoolsCreated) =>
    Len(commandPools) = Cardinality(ResolvedFamilies)

\* C21: after InitVulkanDevice with a non-empty request list the device
\* owns one command pool per requested queue, pool i created for the
\* family of request i; the families of the pools are the distinct
\* families requested, the number of pools is the number of requests.
C21_OnePoolPerQueue ==
  cp_pc = "done" =>
    /\ queues # << >>
    /\ Len(commandPools) = Len(queues)
    /\ Len(device_queues) = Len(queues)
    /\ device_queues = queue_indices
    /\ AllPoolsCreated =>
         /\ \A i \in 1..Len(queues) : commandPools[i] = <<Resolved(i)>>
         /\ { commandPools[k][1] : k \in DOMAIN commandPools }
              = ResolvedFamilies

\* C21 witness: three requests on two families (two sharing one), every
\* pool created: three pools.
C21_Witness ==
  /\ cp_pc = "done"
  /\ AllPoolsCreated
  /\ Len(queues) = 3
  /\ Cardinality(ResolvedFamilies) = 2
  /\ Len(commandPools) = 3
  /\ commandPools[2] = commandPools[3]

----------------------------------------------------------------------------
(* The callers of FindMemoryType (under SpecAllocateMemory).               *)

\* C22 as stated: when no memory type matches, the caller fails before
\* allocating: the not-found value is never the memory type index of an
\* allocation.
C22_SentinelNeverAllocated ==
  allocateInfo # << >> => allocateInfo[1] # <<65535, 65535>>

----------------------------------------------------------------------------
(* Properties of CreateAndRecordCommandBuffers (under SpecRecord).         *)

SecondaryFlagSet == \E i \in 1..Len(argv) : argv[i] = <<"--secondary">>

\* C23: when the function returns the callback has been invoked exactly
\* once.  With --secondary set and a secondary out-parameter supplied, the
\* callback's commands are in the secondary buffer only and the primary
\* holds exactly one execute-commands of that secondary; otherwise the
\* commands are in the primary, no secondary buffer was allocated and the
\* secondary out-parameter is unwritten.
C23_RecordingTarget ==
  cr_pc = "returned" =>
    /\ cr_calls = 1
    /\ ~cr_failed =>
         IF SecondaryFlagSet /\ secondary_arg
           THEN /\ primary_out = <<1>> /\ secondary_out = <<2>>
                /\ allocated[1] = "PRIMARY" /\ allocated[2] = "SECONDARY"
                /\ recorded[2] = callback
                /\ recorded[1] = << <<"vkCmdExecuteCommands", 2>> >>
                /\ recorded[0] = << >>
           ELSE /\ primary_out = <<1>> /\ secondary_out = << >>
                /\ DOMAIN allocated = {1}
                /\ recorded[1] = callback
                /\ recorded[2] = << >> /\ recorded[0] = << >>

\* C23 witness: the flag is set, a secondary was supplied, and the two
\* commands of the callback went into the secondary.
C23_Witness ==
  /\ cr_pc = "returned" /\ ~cr_failed
  /\ SecondaryFlagSet /\ secondary_arg
  /\ Len(callback) = 2
  /\ recorded[2] = callback

----------------------------------------------------------------------------
(* The callers of LoadShader (under SpecLoadShader).                       *)

\* C24 as stated: when the kernel file cannot be opened or measured,
\* LoadShader returns failure without creating a module, and the caller
\* does not carry on: no descriptor or pipeline call follows, no pipeline
\* is built and the program does not end with the success status.
C24_LoadFailureNotSwallowed ==
  (~file_opens \/ ~length_known) =>
    /\ ls_pc # "load" => (load_result = "false" /\ shader = << >>)
    /\ ls_pc \in {"load", "aborted"}
    /\ pipeline_module = << >>

----------------------------------------------------------------------------
(* Properties of the programs (under SpecPrograms).                        *)

\* C25 as stated: in every program the watchdog thread has been started
\* before the first batch is handed to a queue.
C25_WatchdogArmedBeforeSubmit ==
  pg_submitted > 0 => watchdog_thread

\* C28 as stated: in every program, on every command line, each call of
\* GetSingleDevice finds exactly one registered device.
C28_SingleDeviceAtEveryCall ==
  gsd_sizes \subseteq {1}

----------------------------------------------------------------------------
(* Properties of the bind-sparse scenario (under SpecBindSparse).          *)

BinaryValues == [i \in 0..9 |-> binarySemaphores[i]]
TimelineValues == [i \in 0..9 |-> timelineSemaphores[i]]

\* Zero-based vectors written as the program's comments write them.
ZeroBased(v) == [i \in 0..(Len(v) - 1) |-> v[i + 1]]

\* C26: with the batches completing in submission order, the semaphores
\* after the first submit, the first sparse bind and the second sparse
\* bind hold the stated values, and no timeline semaphore reaches the
\* value 100 of the last submit's waits, which therefore never completes.
C26_SemaphoreValues ==
  /\ bs_completed = << >> =>
       /\ BinaryValues = ZeroBased(<<0, 0, 0, 0, 0, 0, 0, 0, 0, 0>>)
       /\ TimelineValues = ZeroBased(<<10, 10, 10, 10, 10, 10, 10, 10, 10, 10>>)
  /\ bs_completed = <<"submitInfo">> =>
       /\ BinaryValues = ZeroBased(<<1, 0, 0, 0, 1, 0, 0, 0, 0, 0>>)
       /\ TimelineValues = ZeroBased(<<11, 10, 10, 10, 12, 10, 10, 10, 13, 10>>)
  /\ bs_completed = <<"submitInfo", "bindSparseInfo1">> =>
       /\ BinaryValues = ZeroBased(<<0, 0, 1, 0, 1, 0, 1, 0, 0, 0>>)
       /\ TimelineValues = ZeroBased(<<11, 14, 10, 10, 12, 15, 10, 10, 13, 16>>)
  /\ bs_completed = <<"submitInfo", "bindSparseInfo1", "bindSparseInfo2">> =>
       /\ BinaryValues = ZeroBased(<<0, 0, 1, 0, 0, 0, 1, 1, 0, 0>>)
       /\ TimelineValues = ZeroBased(<<17, 18, 19, 10, 12, 15, 10, 10, 13, 16>>)
  /\ \A i \in DOMAIN timelineSemaphores : timelineSemaphores[i] < 100
  /\ \A k \in DOMAIN bs_completed : bs_completed[k] # "submitInfo2"

\* The three batches completed in submission order and the last submit
\* handed to the queue.
C26_Witness ==
  /\ bs_completed = <<"submitInfo", "bindSparseInfo1", "bindSparseInfo2">>
  /\ "submitInfo2" \in bs_pending
  /\ bs_pc = "returned"

----------------------------------------------------------------------------
(* Properties of held device pointers (under SpecReferences).              *)

\* C27 as stated: a pointer returned for handle g denotes g's record for
\* as long as g itself is neither deleted nor cleaned up, whatever other
\* devices are registered or removed meanwhile.
C27_ReferenceKeepsItsRecord ==
  rf_ref # << >> => DenotesItsRecord(rf_ref[1], rf_storage, rf_devices)

----------------------------------------------------------------------------
(* Destruction counts of the device collection (under SpecDevices).        *)

\* C29 as stated: whatever InitVulkanDevice, DeleteVulkanDevice and
\* CleanupVulkan calls are made on a context, every step that destroys a
\* device destroys one that has not been destroyed before, the instance
\* is destroyed at most once, and the step that destroys it leaves the
\* collection empty.
C29_NothingDestroyedTwice ==
  [][ /\ \A h \in Handles :
           destroyed'[h] # destroyed[h] =>
             /\ destroyed'[h] = destroyed[h] + 1
             /\ h \in live \/ destroyed[h] = 0
      /\ instance_destroyed' # instance_destroyed =>
           /\ instance_destroyed = 0
           /\ devices' = << >> ]_vars

----------------------------------------------------------------------------
(* Termination of exit (under SpecWatchdogExit).                           *)

ExitBegun == mpc = "exiting" \/ wpc = "exiting"

\* C30 as stated: once exit has begun on a thread the process ends, and
\* the watchdog thread never gets as far as the handler's join.
C30_ExitTerminates ==
  /\ ExitBegun ~> (proc_status # "running")
  /\ [](hpc["watchdog"] \notin {"lock", "notify", "unlock", "join"})

====
